---- MODULE Spec2Model ----
(***************************************************************************)
(* A model of the BQSKit LEAP synthesis pass (passes/synthesis/leap.py)    *)
(* and of the standard compile workflow (compiler/compile.py).             *)
(*                                                                         *)
(* Costs are natural numbers on a grid 0..MaxDist; a circuit of the search *)
(* tree is the sequence of successor indices that leads to it from the     *)
(* initial layer (the empty sequence).                                     *)
(***************************************************************************)
EXTENDS Integers, Sequences, FiniteSets, TLC

\* ------------------------------------------------------------------ bounds
\* The largest cost an instantiated circuit can have.
MaxDist == 4
\* The number of successors the layer generator returns for a circuit.
Branch == 2
\* The depth at which the layer generator stops returning successors.
GenDepth == 2

\* Python's None, for max_layer and for a missing seed.
None == -1

\* The synthesize calls the model can run (one, or several side by side or
\* one after the other).
Calls == {1, 2, 3}

Dists == 0..MaxDist

VARIABLES
    \* the pass object (LEAPSynthesisPass.__init__)
    self,
    \* the synthesize calls that exist, and each call's PassData
    runs, data,
    \* what Circuit.instantiate produced for a (seed, template): a memo
    inst,
    \* per call: position in synthesize and its local variables
    pc, instantiate_options, frontier, counter, top_circuit, layer,
    successors, circuits,
    best_dist, best_circ, best_layer, best_dists, best_layers,
    last_prefix_layer, psols, warned_layers, result, warnings,
    \* per call, history: the pops, new bests and prefixes of the search
    trace,
    \* per call, history: the frontier as the last prefix left it (line 263)
    prefix_frontier,
    \* a call of the replace filter: its arguments, the machine model it was
    \* generated for, where the call is, and what it returned
    new, old, model, filter_pc, accept,
    \* a call of compile: its arguments (`model` is shared with the filter),
    \* where the call is, the error it raised, the passes of its task, the
    \* pass to run next, the iterations the loop at hand has made, the pass
    \* data, and (history) the passes that have run
    input, optimization_level, max_synthesis_size, error_threshold,
    compile_pc, raised, task, next_pass, iterations, pass_data, executed,
    \* the message of the error compile raised
    message,
    \* a call of the constructor of the pass: its arguments, where it is
    init_args, init_pc,
    \* a call of a helper of the pass on its own: the helper and its
    \* arguments, and what it returned
    call, returned

leapVars == <<self, runs, data, inst, pc, instantiate_options, frontier,
              counter, top_circuit, layer, successors, circuits, best_dist,
              best_circ,
              best_layer, best_dists, best_layers, last_prefix_layer, psols,
              warned_layers, result, warnings, trace, prefix_frontier>>

filterVars == <<new, old, model, filter_pc, accept>>

compileVars == <<input, optimization_level, max_synthesis_size,
                 error_threshold, compile_pc, raised, task, next_pass,
                 iterations, pass_data, executed, message>>

initVars == <<init_args, init_pc>>

callVars == <<call, returned>>

vars == <<leapVars, filterVars, compileVars, initVars, callVars>>

\* ------------------------------------------------------- pass construction

\* The values each constructor argument takes in the model.
ArgValues ==
    [ success_threshold : {1},
      max_layer : {None, 0, 1, 2},
      no_progress_layers_allowed : {0, 1, 2},
      min_prefix_size : {0, 2, 3},
      store_partial_solutions : BOOLEAN,
      partials_per_depth : {1},
      heuristic_function : {"astar", "dijkstra"},
      seed_option : {None, 1} ]

\* The arguments the model varies from.
BaseArgs ==
    [ success_threshold |-> 1,
      max_layer |-> None,
      no_progress_layers_allowed |-> 1,
      min_prefix_size |-> 2,
      store_partial_solutions |-> FALSE,
      partials_per_depth |-> 1,
      heuristic_function |-> "astar",
      seed_option |-> None ]

\* The argument lists the constructor is called with: the base arguments
\* with at most one of them changed.
PassArgs ==
    {a \in ArgValues :
        Cardinality({k \in DOMAIN a : a[k] # BaseArgs[k]}) <= 1}

\* The constructor with the check of min_prefix_size left out.
InitRaises_max_layer_only(a) ==
    a.max_layer # None /\ a.max_layer <= 0

\* __init__ raises ValueError for a max_layer or a min_prefix_size that is
\* given (not None) and not positive (lines 131-146).
InitRaises(a) ==
    \/ a.max_layer # None /\ a.max_layer <= 0
    \/ a.min_prefix_size # None /\ a.min_prefix_size <= 0

\* The pass object __init__ builds from accepted arguments.
NewPass(a) ==
    [ heuristic_function |-> a.heuristic_function,
      success_threshold |-> a.success_threshold,
      max_layer |-> a.max_layer,
      no_progress_layers_allowed |-> a.no_progress_layers_allowed,
      min_prefix_size |-> a.min_prefix_size,
      instantiate_options |->
          IF a.seed_option = None
          THEN [cost_fn_gen |-> 0]
          ELSE [cost_fn_gen |-> 0, seed |-> a.seed_option],
      store_partial_solutions |-> a.store_partial_solutions,
      partials_per_depth |-> a.partials_per_depth ]

\* ------------------------------------------------ collaborators of the pass

\* A circuit: the template (the successor steps taken from the initial
\* layer) and the cost its instantiated parameters have against the target.
Circuit(gates, cost) == [gates |-> gates, cost |-> cost]

\* CostFunctionGenerator.calc_cost(circuit, utry).
calc_cost(circuit) == circuit.cost

\* LayerGenerator.gen_initial_layer: the template of the initial layer.
gen_initial_layer == << >>

\* A layer generator: how many successors it returns for a circuit, and the
\* depth at which it stops returning any.
LayerGen(branch, depth) == [branch |-> branch, depth |-> depth]

\* LayerGenerator.gen_successors: the templates one layer deeper.
gen_successors(layer_gen, circuit) ==
    IF Len(circuit.gates) < layer_gen.depth
    THEN [i \in 1..layer_gen.branch |-> Append(circuit.gates, i)]
    ELSE << >>

\* Circuit.instantiate(template, target, seed=...): the costs the optimiser
\* can end at. A seeded optimiser repeats what it did for the same seed and
\* template before.
instantiate(template, seed) ==
    IF \E e \in inst : e.seed = seed /\ e.gates = template
    THEN {e.cost : e \in {x \in inst : x.seed = seed /\ x.gates = template}}
    ELSE Dists

\* HeuristicFunction.get_value(circuit, target): A* adds the depth of the
\* circuit to its cost, Dijkstra is the cost alone.
heuristic(circuit) ==
    IF self.heuristic_function = "astar"
    THEN calc_cost(circuit) + Len(circuit.gates)
    ELSE calc_cost(circuit)

\* Frontier.add(circuit, layer): a priority-queue entry, numbered in
\* insertion order.
FrontierAdd(f, count, circuit, l) ==
    f \cup {[h |-> heuristic(circuit), count |-> count,
             circuit |-> circuit, layer |-> l]}

\* Frontier.pop(): the entry of least heuristic value, the earliest inserted
\* among equals.
FrontierTop(f) ==
    CHOOSE e \in f : \A o \in f :
        \/ e.h < o.h
        \/ e.h = o.h /\ e.count <= o.count

\* ------------------------------------------------------ helpers of the pass

\* The seed synthesize passes to instantiate (lines 175-179): the options'
\* own seed, else the seed of the pass data.
SeedOption(options, d) ==
    IF "seed" \in DOMAIN options
    THEN options
    ELSE [k \in DOMAIN options \cup {"seed"} |->
            IF k = "seed" THEN d.seed ELSE options[k]]

\* The test of max_layer with the layer max_layer itself let through.
BelowMaxLayer_inclusive(l) == self.max_layer = None \/ l <= self.max_layer

\* "self.max_layer is None or layer + 1 < self.max_layer" (lines 262, 275).
BelowMaxLayer(l) == self.max_layer = None \/ l < self.max_layer

\* check_new_best with the cost comparison the wrong way round.
check_new_best_inverted(l, dist, bl, bd) ==
    \/ dist > bd /\ (bd >= self.success_threshold \/ l <= bl)
    \/ dist < self.success_threshold /\ l < bl

\* check_new_best that takes a cheaper circuit only when it is no deeper
\* than the best one.
check_new_best_no_deeper(l, dist, bl, bd) ==
    dist < bd /\ l <= bl

\* check_new_best that takes a circuit as cheap as the best one, too.
check_new_best_or_equal(l, dist, bl, bd) ==
    \/ dist <= bd /\ (bd >= self.success_threshold \/ l <= bl)
    \/ dist < self.success_threshold /\ l < bl

\* check_new_best with a strict comparison of the layers in its first
\* clause.
check_new_best_strict_layer(l, dist, bl, bd) ==
    \/ dist < bd /\ (bd >= self.success_threshold \/ l < bl)
    \/ dist < self.success_threshold /\ l < bl

\* LEAPSynthesisPass.check_new_best.
check_new_best(l, dist, bl, bd) ==
    LET better_layer ==
            /\ dist < bd
            /\ (bd >= self.success_threshold \/ l <= bl)
        better_dist_and_layer ==
            dist < self.success_threshold /\ l < bl
    IN  better_layer \/ better_dist_and_layer

RECURSIVE SumSeq(_)
SumSeq(s) == IF s = << >> THEN 0 ELSE Head(s) + SumSeq(Tail(s))

\* n * sum(x*x) - sum(x)^2: n^2 times the variance of the layers.
RegSxx(xs) ==
    Len(xs) * SumSeq([i \in 1..Len(xs) |-> xs[i] * xs[i]])
        - SumSeq(xs) * SumSeq(xs)

\* n * sum(x*y) - sum(x)*sum(y): n^2 times the covariance.
RegSxy(xs, ys) ==
    Len(xs) * SumSeq([i \in 1..Len(xs) |-> xs[i] * ys[i]])
        - SumSeq(xs) * SumSeq(ys)

\* linregress(best_layers, best_dists) has no slope (NaN) when the layers
\* are all equal, a single point included.
RegIsNaN(xs) == RegSxx(xs) = 0

\* The sign of delta = m * new_layer + y_int - best_dist, in exact
\* arithmetic: delta times n * RegSxx(xs), which is positive.
RegDeltaScaled(new_layer, bd, xs, ys) ==
    RegSxy(xs, ys) * (Len(xs) * new_layer - SumSeq(xs))
        + SumSeq(ys) * RegSxx(xs)
        - Len(xs) * RegSxx(xs) * bd

\* check_leap_condition without the test of the layers added since the last
\* prefix.
check_leap_condition_any_size(new_layer, bd, layers, dists, lpl) ==
    /\ ~RegIsNaN(layers)
    /\ RegDeltaScaled(new_layer, bd, layers, dists) < 0

\* check_leap_condition that is content with one layer less than
\* min_prefix_size since the last prefix.
check_leap_condition_one_less(new_layer, bd, layers, dists, lpl) ==
    /\ ~RegIsNaN(layers)
    /\ RegDeltaScaled(new_layer, bd, layers, dists) < 0
    /\ new_layer - lpl >= self.min_prefix_size - 1

\* LEAPSynthesisPass.check_leap_condition: its return value, on the history
\* it is given (it appends the new pair itself, see Evaluate).
check_leap_condition(new_layer, bd, layers, dists, lpl) ==
    /\ ~RegIsNaN(layers)
    /\ RegDeltaScaled(new_layer, bd, layers, dists) < 0
    /\ new_layer - lpl >= self.min_prefix_size

\* list.sort(key=lambda x: x[1]): a stable sort by cost.
RECURSIVE SortByCost(_)
SortByCost(s) ==
    IF Len(s) <= 1 THEN s
    ELSE LET rest == SortByCost(Tail(s))
             k == Cardinality({i \in 1..Len(rest) : rest[i][2] < Head(s)[2]})
         IN  SubSeq(rest, 1, k) \o <<Head(s)>> \o SubSeq(rest, k + 1, Len(rest))

\* A partial solution recorded without the sort: on overflow the entry just
\* appended is the one deleted.
StorePartial_unsorted(ps, l, circuit, dist) ==
    LET bucket == IF l \in DOMAIN ps THEN ps[l] ELSE << >>
        grown == Append(bucket, <<circuit, dist>>)
        kept == IF Len(grown) > self.partials_per_depth
                THEN SubSeq(grown, 1, Len(grown) - 1)
                ELSE grown
    IN  [k \in DOMAIN ps \cup {l} |-> IF k = l THEN kept ELSE ps[k]]

\* Lines 265-273: record a partial solution in the bucket of `l`.
StorePartial(ps, l, circuit, dist) ==
    LET bucket == IF l \in DOMAIN ps THEN ps[l] ELSE << >>
        grown == Append(bucket, <<circuit, dist>>)
        kept == IF Len(grown) > self.partials_per_depth
                THEN SubSeq(SortByCost(grown), 1, Len(grown) - 1)
                ELSE grown
    IN  [k \in DOMAIN ps \cup {l} |-> IF k = l THEN kept ELSE ps[k]]

\* data['psols'] = psols (lines 239, 296).
SetPsols(d, ps) ==
    [k \in DOMAIN d \cup {"psols"} |-> IF k = "psols" THEN ps ELSE d[k]]

\* A prefix that adds the new best circuit whatever max_layer is.
FormPrefix_any_layer(f, count, circuit, l) ==
    FrontierAdd({}, count, circuit, l)

\* A prefix formed without frontier.clear().
FormPrefix_noclear(f, count, circuit, l) ==
    IF BelowMaxLayer(l) THEN FrontierAdd(f, count, circuit, l) ELSE f

\* Lines 261-263: frontier.clear(), then the new best circuit is added again
\* when max_layer allows.
FormPrefix(f, count, circuit, l) ==
    IF BelowMaxLayer(l) THEN FrontierAdd({}, count, circuit, l) ELSE {}

Abs(x) == IF x < 0 THEN 0 - x ELSE x

\* An entry of the history: a pop (with the entry's layer and insertion
\* number), a new best or a prefix (with its layer and the number the next
\* frontier entry gets).
Event(ev, circuit, l, count) ==
    [ev |-> ev, circuit |-> circuit, layer |-> l, count |-> count]

\* --------------------------------------------------- synthesize, step by step

\* The start of synthesize without the return on a successful initial layer:
\* the search loop is entered whatever the cost of the initial layer.
Start_always_loops(r) ==
    /\ r \in runs
    /\ pc[r] = "call"
    /\ LET options == SeedOption(self.instantiate_options, data[r])
       IN  \E d0 \in instantiate(gen_initial_layer, options.seed) :
           LET initial_layer == Circuit(gen_initial_layer, d0)
           IN  /\ instantiate_options' =
                      [instantiate_options EXCEPT ![r] = options]
               /\ inst' = inst \cup {[seed |-> options.seed,
                                      gates |-> gen_initial_layer,
                                      cost |-> d0]}
               /\ frontier' = [frontier EXCEPT
                      ![r] = FrontierAdd({}, 0, initial_layer, 0)]
               /\ counter' = [counter EXCEPT ![r] = 1]
               /\ best_dist' = [best_dist EXCEPT ![r] = d0]
               /\ best_circ' = [best_circ EXCEPT ![r] = initial_layer]
               /\ best_layer' = [best_layer EXCEPT ![r] = 0]
               /\ best_dists' = [best_dists EXCEPT ![r] = <<d0>>]
               /\ best_layers' = [best_layers EXCEPT ![r] = <<0>>]
               /\ last_prefix_layer' = [last_prefix_layer EXCEPT ![r] = 0]
               /\ psols' = [psols EXCEPT ![r] = << >>]
               /\ pc' = [pc EXCEPT ![r] = "loop"]
               /\ UNCHANGED result
               /\ warned_layers' = [warned_layers EXCEPT ![r] = << >>]
    /\ UNCHANGED <<self, runs, data, top_circuit, layer, successors,
                   circuits, warnings, trace, prefix_frontier>>

\* The start of synthesize with the seed added to the options of the pass
\* object itself, not to a copy of them.
Start_no_copy(r) ==
    /\ r \in runs
    /\ pc[r] = "call"
    /\ LET options == SeedOption(self.instantiate_options, data[r])
       IN  \E d0 \in instantiate(gen_initial_layer, options.seed) :
           LET initial_layer == Circuit(gen_initial_layer, d0)
           IN  /\ instantiate_options' =
                      [instantiate_options EXCEPT ![r] = options]
               /\ inst' = inst \cup {[seed |-> options.seed,
                                      gates |-> gen_initial_layer,
                                      cost |-> d0]}
               /\ frontier' = [frontier EXCEPT
                      ![r] = FrontierAdd({}, 0, initial_layer, 0)]
               /\ counter' = [counter EXCEPT ![r] = 1]
               /\ best_dist' = [best_dist EXCEPT ![r] = d0]
               /\ best_circ' = [best_circ EXCEPT ![r] = initial_layer]
               /\ best_layer' = [best_layer EXCEPT ![r] = 0]
               /\ best_dists' = [best_dists EXCEPT ![r] = <<d0>>]
               /\ best_layers' = [best_layers EXCEPT ![r] = <<0>>]
               /\ last_prefix_layer' = [last_prefix_layer EXCEPT ![r] = 0]
               /\ psols' = [psols EXCEPT ![r] = << >>]
               /\ IF d0 < self.success_threshold
                  THEN /\ pc' = [pc EXCEPT ![r] = "done"]
                       /\ result' = [result EXCEPT ![r] = initial_layer]
                  ELSE /\ pc' = [pc EXCEPT ![r] = "loop"]
                       /\ UNCHANGED result
               /\ warned_layers' = [warned_layers EXCEPT ![r] = << >>]
    /\ self' = [self EXCEPT !.instantiate_options =
                                SeedOption(@, data[r])]
    /\ UNCHANGED <<runs, data, top_circuit, layer, successors,
                   circuits, warnings, trace, prefix_frontier>>

\* Lines 174-210: the initial layer is instantiated and evaluated.
Start(r) ==
    /\ r \in runs
    /\ pc[r] = "call"
    /\ LET options == SeedOption(self.instantiate_options, data[r])
       IN  \E d0 \in instantiate(gen_initial_layer, options.seed) :
           LET initial_layer == Circuit(gen_initial_layer, d0)
           IN  /\ instantiate_options' =
                      [instantiate_options EXCEPT ![r] = options]
               /\ inst' = inst \cup {[seed |-> options.seed,
                                      gates |-> gen_initial_layer,
                                      cost |-> d0]}
               /\ frontier' = [frontier EXCEPT
                      ![r] = FrontierAdd({}, 0, initial_layer, 0)]
               /\ counter' = [counter EXCEPT ![r] = 1]
               /\ best_dist' = [best_dist EXCEPT ![r] = d0]
               /\ best_circ' = [best_circ EXCEPT ![r] = initial_layer]
               /\ best_layer' = [best_layer EXCEPT ![r] = 0]
               /\ best_dists' = [best_dists EXCEPT ![r] = <<d0>>]
               /\ best_layers' = [best_layers EXCEPT ![r] = <<0>>]
               /\ last_prefix_layer' = [last_prefix_layer EXCEPT ![r] = 0]
               /\ psols' = [psols EXCEPT ![r] = << >>]
               /\ IF d0 < self.success_threshold
                  THEN /\ pc' = [pc EXCEPT ![r] = "done"]
                       /\ result' = [result EXCEPT ![r] = initial_layer]
                  ELSE /\ pc' = [pc EXCEPT ![r] = "loop"]
                       /\ UNCHANGED result
               /\ warned_layers' = [warned_layers EXCEPT ![r] = << >>]
    /\ UNCHANGED <<self, runs, data, top_circuit, layer, successors,
                   circuits, warnings, trace, prefix_frontier>>

\* Lines 213-220: the best entry is popped and its successors generated;
\* with no successor the loop continues with the next entry.
Pop(r) ==
    /\ r \in runs
    /\ pc[r] = "loop"
    /\ frontier[r] # {}
    /\ LET e == FrontierTop(frontier[r])
           succ == gen_successors(data[r].layer_gen, e.circuit)
       IN  /\ frontier' = [frontier EXCEPT ![r] = @ \ {e}]
           /\ top_circuit' = [top_circuit EXCEPT ![r] = e.circuit]
           /\ layer' = [layer EXCEPT ![r] = e.layer]
           /\ successors' = [successors EXCEPT ![r] = succ]
           /\ trace' = [trace EXCEPT ![r] = Append(@, Event("pop", e.circuit,
                                                       e.layer, e.count))]
           /\ pc' = [pc EXCEPT ![r] = IF Len(succ) = 0 THEN "loop" ELSE "map"]
    /\ UNCHANGED <<self, runs, data, inst, instantiate_options, counter,
                   circuits, best_dist, best_circ, best_layer, best_dists,
                   best_layers, last_prefix_layer, psols, warned_layers,
                   result, warnings, prefix_frontier>>

\* The map of lines 223-228 with the seed left out of the options: the
\* optimiser starts anywhere, whatever it did before.
Map_unseeded(r) ==
    /\ r \in runs
    /\ pc[r] = "map"
    /\ LET n == Len(successors[r])
       IN  \E costs \in [1..n -> Dists] :
           /\ circuits' = [circuits EXCEPT
                  ![r] = [i \in 1..n |-> Circuit(successors[r][i], costs[i])]]
           /\ UNCHANGED inst
    /\ pc' = [pc EXCEPT ![r] = "eval"]
    /\ UNCHANGED <<self, runs, data, instantiate_options, frontier, counter,
                   top_circuit, layer, successors, best_dist, best_circ,
                   best_layer, best_dists, best_layers, last_prefix_layer,
                   psols, warned_layers, result, warnings, trace,
                   prefix_frontier>>

\* Lines 223-228: the runtime's map returns the instantiated successors, in
\* input order.
Map(r) ==
    /\ r \in runs
    /\ pc[r] = "map"
    /\ LET seed == instantiate_options[r].seed
           n == Len(successors[r])
       IN  \E costs \in [1..n -> Dists] :
           /\ \A i \in 1..n : costs[i] \in instantiate(successors[r][i], seed)
           /\ circuits' = [circuits EXCEPT
                  ![r] = [i \in 1..n |-> Circuit(successors[r][i], costs[i])]]
           /\ inst' = inst \cup {[seed |-> seed, gates |-> successors[r][i],
                                  cost |-> costs[i]] : i \in 1..n}
    /\ pc' = [pc EXCEPT ![r] = "eval"]
    /\ UNCHANGED <<self, runs, data, instantiate_options, frontier, counter,
                   top_circuit, layer, successors, best_dist, best_circ,
                   best_layer, best_dists, best_layers, last_prefix_layer,
                   psols, warned_layers, result, warnings, trace,
                   prefix_frontier>>

\* Lines 231-276: one iteration of "for circuit in circuits".
Evaluate(r) ==
    /\ r \in runs
    /\ pc[r] = "eval"
    /\ LET circuit == Head(circuits[r])
           dist == calc_cost(circuit)
           l == layer[r] + 1
       IN  IF dist < self.success_threshold
           THEN /\ pc' = [pc EXCEPT ![r] = "done"]
                /\ result' = [result EXCEPT ![r] = circuit]
                /\ data' = IF self.store_partial_solutions
                           THEN [data EXCEPT ![r] = SetPsols(@, psols[r])]
                           ELSE data
                /\ UNCHANGED <<frontier, counter, circuits, best_dist,
                               best_circ, best_layer, best_dists, best_layers,
                               last_prefix_layer, psols, trace,
                               prefix_frontier>>
           ELSE LET new_best == check_new_best(l, dist, best_layer[r],
                                               best_dist[r])
                    leap == /\ new_best
                            /\ check_leap_condition(l, dist, best_layers[r],
                                   best_dists[r], last_prefix_layer[r])
                    f1 == IF leap
                          THEN FormPrefix(frontier[r], counter[r], circuit, l)
                          ELSE frontier[r]
                    c1 == IF leap /\ BelowMaxLayer(l)
                          THEN counter[r] + 1 ELSE counter[r]
                    f2 == IF BelowMaxLayer(l)
                          THEN FrontierAdd(f1, c1, circuit, l) ELSE f1
                    c2 == IF BelowMaxLayer(l) THEN c1 + 1 ELSE c1
                    ev1 == IF new_best
                           THEN Append(trace[r],
                                    Event("best", circuit, l, counter[r]))
                           ELSE trace[r]
                    ev2 == IF leap
                           THEN Append(ev1,
                                    Event("prefix", circuit, l, counter[r]))
                           ELSE ev1
                IN  /\ best_dist' = [best_dist EXCEPT
                           ![r] = IF new_best THEN dist ELSE @]
                    /\ best_circ' = [best_circ EXCEPT
                           ![r] = IF new_best THEN circuit ELSE @]
                    /\ best_layer' = [best_layer EXCEPT
                           ![r] = IF new_best THEN l ELSE @]
                    /\ best_layers' = [best_layers EXCEPT
                           ![r] = IF new_best THEN Append(@, l) ELSE @]
                    /\ best_dists' = [best_dists EXCEPT
                           ![r] = IF new_best THEN Append(@, dist) ELSE @]
                    /\ last_prefix_layer' = [last_prefix_layer EXCEPT
                           ![r] = IF leap THEN l ELSE @]
                    /\ frontier' = [frontier EXCEPT ![r] = f2]
                    /\ counter' = [counter EXCEPT ![r] = c2]
                    /\ psols' = [psols EXCEPT
                           ![r] = IF self.store_partial_solutions
                                  THEN StorePartial(@, layer[r], circuit, dist)
                                  ELSE @]
                    /\ trace' = [trace EXCEPT ![r] = ev2]
                    /\ prefix_frontier' = [prefix_frontier EXCEPT
                           ![r] = IF leap THEN f1 ELSE @]
                    /\ circuits' = [circuits EXCEPT ![r] = Tail(@)]
                    /\ pc' = [pc EXCEPT
                           ![r] = IF Len(circuits[r]) = 1
                                  THEN "check" ELSE "eval"]
                    /\ UNCHANGED <<result, data>>
    /\ UNCHANGED <<self, runs, inst, instantiate_options, top_circuit, layer,
                   successors, warned_layers, warnings>>

\* The no-progress warning without the test of warned_layers.
NoProgress_rewarns(r) ==
    /\ r \in runs
    /\ pc[r] = "check"
    /\ LET layer_diff == Abs(best_layer[r] - layer[r])
           n == self.no_progress_layers_allowed
       IN  IF n = 0
           THEN /\ pc' = [pc EXCEPT ![r] = "error"]
                /\ UNCHANGED <<warned_layers, warnings>>
           ELSE /\ pc' = [pc EXCEPT ![r] = "loop"]
                /\ IF /\ layer_diff % n = 0
                      /\ layer_diff > 0
                   THEN /\ warnings' = [warnings EXCEPT
                               ![r] = Append(@, "No improvement")]
                        /\ warned_layers' = [warned_layers EXCEPT
                               ![r] = Append(@, layer[r])]
                   ELSE UNCHANGED <<warned_layers, warnings>>
    /\ UNCHANGED <<self, runs, data, inst, instantiate_options, frontier,
                   counter, top_circuit, layer, successors, circuits,
                   best_dist, best_circ, best_layer, best_dists, best_layers,
                   last_prefix_layer, psols, result, trace,
                   prefix_frontier>>

\* Lines 278-288: the no-progress warning after a batch. The remainder is
\* taken first, so a zero no_progress_layers_allowed raises
\* ZeroDivisionError.
NoProgress(r) ==
    /\ r \in runs
    /\ pc[r] = "check"
    /\ LET layer_diff == Abs(best_layer[r] - layer[r])
           n == self.no_progress_layers_allowed
       IN  IF n = 0
           THEN /\ pc' = [pc EXCEPT ![r] = "error"]
                /\ UNCHANGED <<warned_layers, warnings>>
           ELSE /\ pc' = [pc EXCEPT ![r] = "loop"]
                /\ IF /\ layer_diff % n = 0
                      /\ layer_diff > 0
                      /\ \A i \in 1..Len(warned_layers[r]) :
                            warned_layers[r][i] # layer[r]
                   THEN /\ warnings' = [warnings EXCEPT
                               ![r] = Append(@, "No improvement")]
                        /\ warned_layers' = [warned_layers EXCEPT
                               ![r] = Append(@, layer[r])]
                   ELSE UNCHANGED <<warned_layers, warnings>>
    /\ UNCHANGED <<self, runs, data, inst, instantiate_options, frontier,
                   counter, top_circuit, layer, successors, circuits,
                   best_dist, best_circ, best_layer, best_dists, best_layers,
                   last_prefix_layer, psols, result, trace,
                   prefix_frontier>>

\* Lines 290-298: the frontier emptied; the best known circuit is returned.
Finish(r) ==
    /\ r \in runs
    /\ pc[r] = "loop"
    /\ frontier[r] = {}
    /\ warnings' = [warnings EXCEPT ![r] = Append(@, "Frontier emptied")]
    /\ data' = IF self.store_partial_solutions
               THEN [data EXCEPT ![r] = SetPsols(@, psols[r])]
               ELSE data
    /\ result' = [result EXCEPT ![r] = best_circ[r]]
    /\ pc' = [pc EXCEPT ![r] = "done"]
    /\ UNCHANGED <<self, runs, inst, instantiate_options, frontier, counter,
                   top_circuit, layer, successors, circuits, best_dist,
                   best_circ, best_layer, best_dists, best_layers,
                   last_prefix_layer, psols, warned_layers, trace,
                   prefix_frontier>>

\* ------------------------------------------------------- start of a search

NoCircuit == Circuit(<< >>, None)

\* The calls in `rs` are about to start, each on one of the pass data
\* `datas`.
LeapDataInit(rs, datas) ==
    /\ runs = rs
    /\ data \in [Calls -> datas]
    /\ inst = {}
    /\ pc = [r \in Calls |-> IF r \in rs THEN "call" ELSE "none"]
    /\ instantiate_options = [r \in Calls |-> << >>]
    /\ frontier = [r \in Calls |-> {}]
    /\ counter = [r \in Calls |-> 0]
    /\ top_circuit = [r \in Calls |-> NoCircuit]
    /\ layer = [r \in Calls |-> 0]
    /\ successors = [r \in Calls |-> << >>]
    /\ circuits = [r \in Calls |-> << >>]
    /\ best_dist = [r \in Calls |-> 0]
    /\ best_circ = [r \in Calls |-> NoCircuit]
    /\ best_layer = [r \in Calls |-> 0]
    /\ best_dists = [r \in Calls |-> << >>]
    /\ best_layers = [r \in Calls |-> << >>]
    /\ last_prefix_layer = [r \in Calls |-> 0]
    /\ psols = [r \in Calls |-> << >>]
    /\ warned_layers = [r \in Calls |-> << >>]
    /\ result = [r \in Calls |-> NoCircuit]
    /\ warnings = [r \in Calls |-> << >>]
    /\ trace = [r \in Calls |-> << >>]
    /\ prefix_frontier = [r \in Calls |-> {}]

\* The calls in `rs` are about to start on pass data with the seeds `seeds`;
\* the layer generator built from the data's gate set (lines 380-398) is
\* the one of the bounds.
LeapCallsInit(rs, seeds) ==
    LeapDataInit(rs, [seed : seeds, layer_gen : {LayerGen(Branch, GenDepth)}])

\* One pass object built from one of `args`, the calls in `rs` about to
\* start on pass data with the seeds `seeds`.
LeapInit(rs, seeds, args) ==
    /\ self \in {NewPass(a) : a \in {x \in args : ~InitRaises(x)}}
    /\ LeapCallsInit(rs, seeds)

\* ------------------------------------------------------------ circuit IR

\* A gate of the catalog: gates are equal when their names and sizes are.
Gate(name, n) == [name |-> name, num_qudits |-> n]

U3Gate == Gate("U3", 1)
CNOTGate == Gate("CNOT", 2)
CZGate == Gate("CZ", 2)

\* CircuitGate(circuit): a gate whose body is a circuit.
CircuitGate(circuit, n) ==
    [name |-> "CircuitGate", num_qudits |-> n, _circuit |-> circuit]

\* Operation(gate, location); a circuit is a sequence of operations and
\* locations hold qudit indices from 0.
Operation(gate, location) == [gate |-> gate, location |-> location]

\* Circuit.gate_set: the distinct gates of the circuit.
gate_set(circuit) == {circuit[i].gate : i \in DOMAIN circuit}

\* Circuit.count(gate): the operations with that gate.
count(circuit, g) == Cardinality({i \in DOMAIN circuit : circuit[i].gate = g})

\* An unordered pair of qudits, smaller index first.
Edge(a, b) == IF a <= b THEN <<a, b>> ELSE <<b, a>>

\* Circuit.coupling_graph: the pairs of qudits some operation acts on.
coupling_graph(circuit) ==
    {Edge(circuit[t[1]].location[t[2]], circuit[t[1]].location[t[3]]) :
        t \in {u \in (DOMAIN circuit) \X (1..3) \X (1..3) :
            /\ u[2] < u[3]
            /\ u[3] <= Len(circuit[u[1]].location)}}

\* "(a, b) in model.coupling_graph", for unordered pairs.
InCouplingGraph(a, b, graph) == Edge(a, b) \in graph

\* ---------------------------------------------------------- replace filter

\* sum(circuit.count(g) for g in gates).
RECURSIVE SumCounts(_, _)
SumCounts(circuit, gates) ==
    IF gates = {} THEN 0
    ELSE LET g == CHOOSE x \in gates : TRUE
         IN  count(circuit, g) + SumCounts(circuit, gates \ {g})

\* (a1, a2) <= (b1, b2) on Python tuples.
TupleLess_orequal(a1, a2, b1, b2) == a1 < b1 \/ (a1 = b1 /\ a2 <= b2)

\* (a1, a2) < (b1, b2) on Python tuples (line 717).
TupleLess(a1, a2, b1, b2) == a1 < b1 \/ (a1 = b1 /\ a2 < b2)

\* Line 703 with the test of the model's gate set left out.
HasNonNative_never(org, m) == FALSE

\* Line 703: some gate of the block is not in the model's gate set.
HasNonNative(org, m) == \E g \in gate_set(org) : g \notin m.gate_set

\* Lines 706-709: some edge of the block, mapped through the block's
\* location, is not an edge of the model.
HasUnmappedEdge(org, location, m) ==
    \E e \in coupling_graph(org) :
        ~InCouplingGraph(location[e[1] + 1], location[e[2] + 1],
                         m.coupling_graph)

\* _gen_replace_filter(model)'s _replace_filter(new, old).
_replace_filter(n, o, m) ==
    IF o.gate.name # "CircuitGate" THEN TRUE
    ELSE LET org == o.gate._circuit IN
         IF HasNonNative(org, m) THEN TRUE
         ELSE IF HasUnmappedEdge(org, o.location, m) THEN TRUE
         ELSE LET org_sq_n == SumCounts(org,
                      {g \in gate_set(org) : g.num_qudits = 1})
                  org_mq_n == SumCounts(org,
                      {g \in gate_set(org) : g.num_qudits >= 2})
                  new_sq_n == SumCounts(n,
                      {g \in gate_set(n) : g.num_qudits = 1})
                  new_mq_n == SumCounts(n,
                      {g \in gate_set(n) : g.num_qudits >= 2})
              IN  TupleLess(new_mq_n, new_sq_n, org_mq_n, org_sq_n)

\* The most operations a block body or a replacement has in the model.
MaxOps == 2

\* The operations of block bodies and replacements, on local qudits 0..2.
BlockOps ==
    { Operation(U3Gate, <<0>>), Operation(CNOTGate, <<0, 1>>),
      Operation(CNOTGate, <<1, 2>>), Operation(CZGate, <<0, 1>>) }

RECURSIVE SeqsUpTo(_, _)
SeqsUpTo(S, n) ==
    IF n = 0 THEN {<< >>}
    ELSE LET shorter == SeqsUpTo(S, n - 1)
         IN  shorter \cup {Append(q, x) : q \in shorter, x \in S}

BlockCircuits == SeqsUpTo(BlockOps, MaxOps)

\* Where a three-qudit block sits in the parent circuit.
BlockLocations == {<<0, 1, 2>>, <<0, 2, 1>>, <<1, 0, 2>>}

\* The operations the filter is asked about: blocks, and one plain gate.
OldOperations ==
    {Operation(CircuitGate(c, 3), loc) :
        c \in BlockCircuits, loc \in BlockLocations}
    \cup {Operation(CNOTGate, <<0, 2>>)}

\* MachineModel(num_qudits, coupling_graph, gate_set, radixes).
MachineModel(n, graph, gates, radixes) ==
    [num_qudits |-> n, coupling_graph |-> graph, gate_set |-> gates,
     radixes |-> radixes]

AllToAll(n) ==
    {Edge(t[1], t[2]) : t \in {u \in (0..n-1) \X (0..n-1) : u[1] < u[2]}}

Line(n) == {Edge(a, a + 1) : a \in 0..n-2}

FilterModels ==
    {MachineModel(3, g, s, <<2, 2, 2>>) :
        g \in {AllToAll(3), Line(3)},
        s \in {{U3Gate, CNOTGate}, {U3Gate, CNOTGate, CZGate}}}

NoOperation == Operation(Gate("none", 0), << >>)

\* No call of the filter is under way.
FilterCallIdle ==
    /\ new = << >>
    /\ old = NoOperation
    /\ filter_pc = "idle"
    /\ accept = FALSE

FilterIdle ==
    /\ FilterCallIdle
    /\ model = MachineModel(0, {}, {}, << >>)

FilterInit ==
    /\ new \in BlockCircuits
    /\ old \in OldOperations
    /\ model \in FilterModels
    /\ filter_pc = "call"
    /\ accept = FALSE

\* ForEachBlockPass asks the filter whether `new` may replace `old`.
ReplaceFilter ==
    /\ filter_pc = "call"
    /\ accept' = _replace_filter(new, old, model)
    /\ filter_pc' = "returned"
    /\ UNCHANGED <<new, old, model>>

\* ------------------------------------------------------------------ passes

SwapGate == Gate("SWAP", 2)
RZGate == Gate("RZ", 1)
SqrtXGate == Gate("SqrtX", 1)
ToffoliGate == Gate("CCX", 3)
XGate == Gate("X", 1)
MeasurementPlaceholder(n) == Gate("Measurement", n)

\* The constructors of the passes the standard workflow is built from; a
\* pass is a record of its class name and constructor arguments.
SimplePass(name) == [name |-> name]
LogPass(msg) == [name |-> "LogPass", msg |-> msg]
QuickPartitioner(block_size) ==
    [name |-> "QuickPartitioner", block_size |-> block_size]
ExtendBlockSizePass(minimum_size) ==
    [name |-> "ExtendBlockSizePass", minimum_size |-> minimum_size]
ScanningGateRemovalPass(collection_filter) ==
    [name |-> "ScanningGateRemovalPass",
     collection_filter |-> collection_filter]
QSearchSynthesisPass(layer_generator, heuristic_function) ==
    [name |-> "QSearchSynthesisPass", layer_generator |-> layer_generator,
     heuristic_function |-> heuristic_function]
LEAPSynthesisPass(layer_generator, min_prefix_size) ==
    [name |-> "LEAPSynthesisPass", layer_generator |-> layer_generator,
     min_prefix_size |-> min_prefix_size]
Rebase2QuditGatePass(from, to, max_depth, max_retries) ==
    [name |-> "Rebase2QuditGatePass", gate_in_circuit |-> from,
     new_gate |-> to, max_depth |-> max_depth, max_retries |-> max_retries]
IfThenElsePass(condition, on_true, on_false) ==
    [name |-> "IfThenElsePass", condition |-> condition,
     on_true |-> on_true, on_false |-> on_false]
WhileLoopPass(condition, loop_body) ==
    [name |-> "WhileLoopPass", condition |-> condition,
     loop_body |-> loop_body]
ForEachBlockPass(loop_body, replace_filter, calculate_error_bound) ==
    [name |-> "ForEachBlockPass", loop_body |-> loop_body,
     replace_filter |-> replace_filter,
     calculate_error_bound |-> calculate_error_bound]
PassGroup(passes) == [name |-> "PassGroup", passes |-> passes]

\* _get_layer_gen(circuit, model).
_get_layer_gen(m) ==
    LET tq_gates == {g \in m.gate_set : g.num_qudits = 2}
        mq_gates == {g \in m.gate_set : g.num_qudits > 2}
    IN  IF Cardinality(tq_gates) = 1 /\ Cardinality(mq_gates) = 0
        THEN IF CNOTGate \in tq_gates
             THEN "FourParamGenerator"
             ELSE "SimpleLayerGenerator"
        ELSE "WideLayerGenerator"

\* _get_single_qudit_gate_rebase_pass with ZXZXZDecomposition kept for the
\* gate set {RZ, SqrtX} alone.
_get_single_qudit_gate_rebase_pass_exact(m) ==
    LET sq_gates == {g \in m.gate_set : g.num_qudits = 1}
        closed_form ==
            IF Cardinality(sq_gates) = 1
            THEN IF sq_gates = {U3Gate} THEN "U3Decomposition" ELSE "NOOPPass"
            ELSE IF Cardinality(sq_gates) >= 2
                 THEN IF sq_gates = {RZGate, SqrtXGate}
                      THEN "ZXZXZDecomposition" ELSE "NOOPPass"
                 ELSE "NOOPPass"
        core_sq_rebase ==
            IF closed_form = "NOOPPass"
            THEN QSearchSynthesisPass("SingleQuditLayerGenerator",
                                      "DijkstraHeuristic")
            ELSE SimplePass(closed_form)
    IN  IF Cardinality(sq_gates) = 0
        THEN SimplePass("NOOPPass")
        ELSE PassGroup(<<
                 IfThenElsePass("NotSinglePhysical",
                     << SimplePass("GroupSingleQuditGatePass"),
                        ForEachBlockPass(
                            << IfThenElsePass("NotSinglePhysical",
                                              core_sq_rebase, << >>) >>,
                            "none", FALSE),
                        SimplePass("UnfoldPass") >>,
                     << >>) >>)

\* _get_single_qudit_gate_rebase_pass(model).
_get_single_qudit_gate_rebase_pass(m) ==
    LET sq_gates == {g \in m.gate_set : g.num_qudits = 1}
        closed_form ==
            IF Cardinality(sq_gates) = 1
            THEN IF sq_gates = {U3Gate} THEN "U3Decomposition" ELSE "NOOPPass"
            ELSE IF Cardinality(sq_gates) >= 2
                 THEN IF RZGate \in sq_gates /\ SqrtXGate \in sq_gates
                      THEN "ZXZXZDecomposition" ELSE "NOOPPass"
                 ELSE "NOOPPass"
        core_sq_rebase ==
            IF closed_form = "NOOPPass"
            THEN QSearchSynthesisPass("SingleQuditLayerGenerator",
                                      "DijkstraHeuristic")
            ELSE SimplePass(closed_form)
    IN  IF Cardinality(sq_gates) = 0
        THEN SimplePass("NOOPPass")
        ELSE PassGroup(<<
                 IfThenElsePass("NotSinglePhysical",
                     << SimplePass("GroupSingleQuditGatePass"),
                        ForEachBlockPass(
                            << IfThenElsePass("NotSinglePhysical",
                                              core_sq_rebase, << >>) >>,
                            "none", FALSE),
                        SimplePass("UnfoldPass") >>,
                     << >>) >>)

\* The passes of one stage of a workflow, each marked with the stage.
Stage(stage, passes) ==
    [i \in DOMAIN passes |-> [stage |-> stage, pass |-> passes[i]]]

Min(S) == CHOOSE x \in S : \A y \in S : x <= y

\* min(g.num_qudits for g in model.gate_set if g.num_qudits != 1): the
\* builders raise ValueError when no gate qualifies.
HasEntangler(m) == \E g \in m.gate_set : g.num_qudits # 1

smallest_entangler_size(m) ==
    Min({g.num_qudits : g \in {x \in m.gate_set : x.num_qudits # 1}})

\* multi_qudit_gate_rebase of the builders: direct synthesis when the
\* circuit has a non-native gate on more than two qudits, else the rebase.
multi_qudit_gate_rebase(circuit_gates, m, width, min_prefix_size) ==
    LET non_native_gates == {g \in circuit_gates : g \notin m.gate_set}
        non_native_tq_gates ==
            {g \in non_native_gates : g.num_qudits = 2}
                \cup (IF SwapGate \notin m.gate_set THEN {SwapGate} ELSE {})
        native_tq_gates == {g \in m.gate_set : g.num_qudits = 2}
        non_native_mq == \E g \in non_native_gates : g.num_qudits > 2
        direct_synthesis ==
            IfThenElsePass([name |-> "WidthPredicate", width |-> width],
                QSearchSynthesisPass(_get_layer_gen(m), "default"),
                LEAPSynthesisPass(_get_layer_gen(m), min_prefix_size))
    IN  IF non_native_mq THEN direct_synthesis
        ELSE Rebase2QuditGatePass(non_native_tq_gates, native_tq_gates, 3, 5)

\* The stages the three builders share.
MappingStage ==
    Stage("Mapping",
        << LogPass("Mapping circuit."),
           SimplePass("GreedyPlacementPass"),
           SimplePass("GeneralizedSabreLayoutPass"),
           SimplePass("GeneralizedSabreRoutingPass") >>)

FinalStages ==
    Stage("LogError", << SimplePass("LogErrorPass") >>)
        \o Stage("ApplyPlacement", << SimplePass("ApplyPlacement") >>)

\* _opt2_workflow with the gate deletion placed before the single-qudit
\* retargeting.
_opt2_workflow_reordered(circuit_gates, m, mss, error_threshold_given, error_sim_size) ==
    Stage("SetModel", << SimplePass("SetModelPass") >>)
    \o MappingStage
    \o Stage("RetargetMQ",
        << LogPass("Retargeting multi-qudit gates."),
           QuickPartitioner(mss),
           ExtendBlockSizePass(smallest_entangler_size(m)),
           QuickPartitioner(error_sim_size),
           ForEachBlockPass(
               ForEachBlockPass(
                   IfThenElsePass("NotMultiPhysical",
                       multi_qudit_gate_rebase(circuit_gates, m, 3, 5),
                       << >>),
                   "standard", FALSE),
               "none", error_threshold_given),
           SimplePass("UnfoldPass") >>)
    \o Stage("Delete",
        << LogPass("Attempting to delete gates."),
           QuickPartitioner(mss),
           ExtendBlockSizePass(smallest_entangler_size(m)),
           QuickPartitioner(error_sim_size),
           ForEachBlockPass(
               ForEachBlockPass(ScanningGateRemovalPass("none"),
                                "none", FALSE),
               "none", error_threshold_given),
           SimplePass("UnfoldPass") >>)
    \o Stage("RetargetSQ",
        << LogPass("Retargeting single-qudit gates."),
           _get_single_qudit_gate_rebase_pass(m) >>)
    \o FinalStages

\* _opt1_workflow: the list it returns (lines 341-375).
_opt1_workflow(circuit_gates, m, mss, error_threshold_given, error_sim_size) ==
    Stage("SetModel", << SimplePass("SetModelPass") >>)
    \o MappingStage
    \o Stage("RetargetMQ",
        << LogPass("Retargeting multi-qudit gates."),
           QuickPartitioner(mss),
           ExtendBlockSizePass(smallest_entangler_size(m)),
           QuickPartitioner(error_sim_size),
           ForEachBlockPass(
               ForEachBlockPass(
                   IfThenElsePass("NotMultiPhysical",
                       multi_qudit_gate_rebase(circuit_gates, m, 3, 3),
                       << SimplePass("FillSingleQuditGatesPass"),
                          ScanningGateRemovalPass(
                              "_mq_gate_collection_filter") >>),
                   "standard", FALSE),
               "none", error_threshold_given),
           SimplePass("UnfoldPass") >>)
    \o Stage("RetargetSQ",
        << LogPass("Retargeting single-qudit gates."),
           _get_single_qudit_gate_rebase_pass(m) >>)
    \o FinalStages

\* _opt2_workflow: the list it returns (lines 417-461).
_opt2_workflow(circuit_gates, m, mss, error_threshold_given, error_sim_size) ==
    Stage("SetModel", << SimplePass("SetModelPass") >>)
    \o MappingStage
    \o Stage("RetargetMQ",
        << LogPass("Retargeting multi-qudit gates."),
           QuickPartitioner(mss),
           ExtendBlockSizePass(smallest_entangler_size(m)),
           QuickPartitioner(error_sim_size),
           ForEachBlockPass(
               ForEachBlockPass(
                   IfThenElsePass("NotMultiPhysical",
                       multi_qudit_gate_rebase(circuit_gates, m, 3, 5),
                       << >>),
                   "standard", FALSE),
               "none", error_threshold_given),
           SimplePass("UnfoldPass") >>)
    \o Stage("RetargetSQ",
        << LogPass("Retargeting single-qudit gates."),
           _get_single_qudit_gate_rebase_pass(m) >>)
    \o Stage("Delete",
        << LogPass("Attempting to delete gates."),
           QuickPartitioner(mss),
           ExtendBlockSizePass(smallest_entangler_size(m)),
           QuickPartitioner(error_sim_size),
           ForEachBlockPass(
               ForEachBlockPass(ScanningGateRemovalPass("none"),
                                "none", FALSE),
               "none", error_threshold_given),
           SimplePass("UnfoldPass") >>)
    \o FinalStages

\* _opt3_workflow: the list it returns (lines 513-595).
_opt3_workflow(circuit_gates, m, mss, error_threshold_given, error_sim_size) ==
    Stage("SetModel", << SimplePass("SetModelPass") >>)
    \o Stage("PreDelete",
        << LogPass("Attempting to delete multi-qudit gates."),
           WhileLoopPass("ChangePredicate",
               << QuickPartitioner(mss),
                  QuickPartitioner(error_sim_size),
                  ForEachBlockPass(
                      ForEachBlockPass(
                          ScanningGateRemovalPass(
                              "_mq_gate_collection_filter"),
                          "none", FALSE),
                      "none", error_threshold_given),
                  SimplePass("UnfoldPass") >>) >>)
    \o MappingStage
    \o Stage("RetargetMQ",
        << LogPass("Retargeting multi-qudit gates."),
           QuickPartitioner(mss),
           ExtendBlockSizePass(smallest_entangler_size(m)),
           QuickPartitioner(error_sim_size),
           ForEachBlockPass(
               ForEachBlockPass(
                   IfThenElsePass("NotMultiPhysical",
                       multi_qudit_gate_rebase(circuit_gates, m, 4, 7),
                       << >>),
                   "standard", FALSE),
               "none", error_threshold_given),
           SimplePass("UnfoldPass") >>)
    \o Stage("Resynthesis",
        << WhileLoopPass(
               [name |-> "GateCountPredicate",
                gates |-> {g \in m.gate_set : g.num_qudits >= 2}],
               << LogPass("Resynthesizing blocks."),
                  QuickPartitioner(mss),
                  ExtendBlockSizePass(smallest_entangler_size(m)),
                  QuickPartitioner(error_sim_size),
                  ForEachBlockPass(
                      ForEachBlockPass(
                          IfThenElsePass(
                              [name |-> "WidthPredicate", width |-> 4],
                              QSearchSynthesisPass(_get_layer_gen(m), "default"),
                              LEAPSynthesisPass(_get_layer_gen(m), 7)),
                          "standard", FALSE),
                      "none", error_threshold_given),
                  SimplePass("UnfoldPass") >>) >>)
    \o Stage("RetargetSQ",
        << LogPass("Retargeting single-qudit gates."),
           _get_single_qudit_gate_rebase_pass(m) >>)
    \o Stage("Delete",
        << WhileLoopPass("ChangePredicate",
               << LogPass("Attempting to delete gates."),
                  QuickPartitioner(mss),
                  QuickPartitioner(error_sim_size),
                  ForEachBlockPass(
                      ForEachBlockPass(ScanningGateRemovalPass("none"),
                                       "none", FALSE),
                      "none", error_threshold_given),
                  SimplePass("UnfoldPass") >>) >>)
    \o FinalStages

\* ----------------------------------------------------------------- compile

\* The most one run of an error-calculating ForEachBlockPass adds to
\* data.error, in units of the cost grid.
MaxBlockError == 2
\* The most iterations a WhileLoopPass of the workflow makes.
MaxIter == 2

\* A Python number argument with its type: is_integer accepts only ints.
PyInt(v) == [type |-> "int", value |-> v]
PyFloat(v) == [type |-> "float", value |-> v]
is_integer(x) == x.type = "int"

\* What compile can be given as input: a circuit, a unitary matrix, a state
\* vector, or a value that is none of them.
CircuitInput(n, radixes, gates) ==
    [type |-> "Circuit", num_qudits |-> n, radixes |-> radixes,
     gate_set |-> gates]
UnitaryInput(n, radixes) ==
    [type |-> "UnitaryMatrix", num_qudits |-> n, radixes |-> radixes]
StateInput(n, radixes) ==
    [type |-> "StateVector", num_qudits |-> n, radixes |-> radixes]
OtherInput == [type |-> "str"]

Qubits(n) == [i \in 1..n |-> 2]

\* Circuit.from_unitary(utry): one constant-unitary gate on all qudits.
from_unitary(utry) ==
    CircuitInput(utry.num_qudits, utry.radixes,
                 {Gate("ConstantUnitary", utry.num_qudits)})

Inputs ==
    { CircuitInput(1, Qubits(1), {U3Gate}),
      CircuitInput(2, Qubits(2), {U3Gate, CNOTGate}),
      CircuitInput(3, Qubits(3), {U3Gate, CNOTGate}),
      CircuitInput(3, Qubits(3), {U3Gate, ToffoliGate}),
      CircuitInput(3, Qubits(3), {U3Gate, CNOTGate,
                                  MeasurementPlaceholder(3)}),
      CircuitInput(2, <<3, 3>>, {Gate("CSUM", 2)}),
      UnitaryInput(2, Qubits(2)),
      UnitaryInput(3, Qubits(3)),
      StateInput(2, Qubits(2)),
      StateInput(3, Qubits(3)),
      OtherInput }

\* The model argument when it is left out, and one that is no MachineModel.
NoneModel == [type |-> "NoneType"]
NotAModel == [type |-> "str"]

\* MachineModel(n): all-to-all qubits with the gate set {CNOT, U3}.
DefaultModel(n) == MachineModel(n, AllToAll(n), {CNOTGate, U3Gate}, Qubits(n))

Models ==
    { NoneModel,
      NotAModel,
      DefaultModel(3),
      DefaultModel(2),
      MachineModel(3, Line(3), {U3Gate}, Qubits(3)),
      MachineModel(3, Line(3), {RZGate, SqrtXGate, CZGate}, Qubits(3)),
      MachineModel(3, AllToAll(3), {U3Gate, CNOTGate, CZGate}, Qubits(3)),
      MachineModel(3, AllToAll(3), {U3Gate, CNOTGate}, <<3, 3, 3>>) }

OptimizationLevels == {PyInt(k) : k \in 0..5} \cup {PyFloat(2)}
SynthesisSizes == {PyInt(k) : k \in 1..3} \cup {PyFloat(3)}
ErrorThresholds == {None, 0, 1}

\* The builder of each level; level 4 raises NotImplementedError.
workflow_builder(level, circuit_gates, m, mss, threshold_given, sim_size) ==
    IF level = 1
    THEN _opt1_workflow(circuit_gates, m, mss, threshold_given, sim_size)
    ELSE IF level = 2
    THEN _opt2_workflow(circuit_gates, m, mss, threshold_given, sim_size)
    ELSE _opt3_workflow(circuit_gates, m, mss, threshold_given, sim_size)

\* _circuit_workflow with the measurements restored before the builder's
\* passes.
_circuit_workflow_restore_first(circuit, m, level, mss, threshold, sim_size) ==
    Stage("Extract", << SimplePass("UnfoldPass"),
                        SimplePass("ExtractMeasurements") >>)
    \o Stage("Restore", << SimplePass("RestoreMeasurements") >>)
    \o workflow_builder(level, circuit.gate_set, m, mss,
                        threshold # None, sim_size)

\* _circuit_workflow: the passes of the CompilationTask.
_circuit_workflow(circuit, m, level, mss, threshold, sim_size) ==
    Stage("Extract", << SimplePass("UnfoldPass"),
                        SimplePass("ExtractMeasurements") >>)
    \o workflow_builder(level, circuit.gate_set, m, mss,
                        threshold # None, sim_size)
    \o Stage("Restore", << SimplePass("RestoreMeasurements") >>)

\* The exception class of each error message of compile and its builders.
ExceptionOf(msg) ==
    IF msg = "" THEN ""
    ELSE IF msg \in {"Input is neither a circuit, a unitary, nor a state.",
                     "Expected MachineModel for model",
                     "Expected integer for optimization_level",
                     "Expected integer for max_synthesis_size"}
    THEN "TypeError"
    ELSE IF msg \in {"Optimization level 4 is not yet ready.",
                     "State preparation is not yet implemented."}
    THEN "NotImplementedError"
    ELSE "ValueError"

\* The preamble with max_synthesis_size = 2 refused, as the message of the
\* last check reads.
PreambleMessage_size_above_two(in, m, level, mss) ==
    IF in.type \notin {"Circuit", "UnitaryMatrix", "StateVector"}
    THEN "Input is neither a circuit, a unitary, nor a state."
    ELSE IF \E i \in DOMAIN in.radixes : in.radixes[i] # 2
    THEN "Currently, can only automatically build a workflow for qubit-only systems."
    ELSE IF "gate_set" \notin DOMAIN m
    THEN "Expected MachineModel for model"
    ELSE IF m.num_qudits < in.num_qudits
    THEN "Machine is too small for circuit."
    ELSE IF \E i \in DOMAIN m.radixes : m.radixes[i] # 2
    THEN "Currently, can only automatically build a workflow for qubit-only systems."
    ELSE IF /\ Cardinality({g \in m.gate_set : g.num_qudits >= 2}) = 0
            /\ in.num_qudits > 1
    THEN "No entangling gates in native gate set."
    ELSE IF ~is_integer(level)
    THEN "Expected integer for optimization_level"
    ELSE IF level.value < 1 \/ level.value > 4
    THEN "The optimization level should be either 1, 2, 3, or 4."
    ELSE IF ~is_integer(mss)
    THEN "Expected integer for max_synthesis_size"
    ELSE IF mss.value <= 2
    THEN "The maximum synthesis size needs to be greater than 2."
    ELSE ""

\* The message of the error the preamble of compile (lines 91-206) raises,
\* or "" if none. `m` is the model after the default has been filled in.
PreambleMessage(in, m, level, mss) ==
    IF in.type \notin {"Circuit", "UnitaryMatrix", "StateVector"}
    THEN "Input is neither a circuit, a unitary, nor a state."
    ELSE IF \E i \in DOMAIN in.radixes : in.radixes[i] # 2
    THEN "Currently, can only automatically build a workflow for qubit-only systems."
    ELSE IF "gate_set" \notin DOMAIN m
    THEN "Expected MachineModel for model"
    ELSE IF m.num_qudits < in.num_qudits
    THEN "Machine is too small for circuit."
    ELSE IF \E i \in DOMAIN m.radixes : m.radixes[i] # 2
    THEN "Currently, can only automatically build a workflow for qubit-only systems."
    ELSE IF /\ Cardinality({g \in m.gate_set : g.num_qudits >= 2}) = 0
            /\ in.num_qudits > 1
    THEN "No entangling gates in native gate set."
    ELSE IF ~is_integer(level)
    THEN "Expected integer for optimization_level"
    ELSE IF level.value < 1 \/ level.value > 4
    THEN "The optimization level should be either 1, 2, 3, or 4."
    ELSE IF ~is_integer(mss)
    THEN "Expected integer for max_synthesis_size"
    ELSE IF mss.value < 2
    THEN "The maximum synthesis size needs to be greater than 2."
    ELSE ""

\* The error the preamble of compile raises, or "" if none.
PreambleError(in, m, level, mss) ==
    ExceptionOf(PreambleMessage(in, m, level, mss))

\* The builders with level 4 built like level 3.
BuilderMessage_level4_built(m, level) ==
    IF ~HasEntangler(m) THEN "min() arg is an empty sequence" ELSE ""

\* The message of the error a workflow builder raises, or "" if none: level
\* 4 is not implemented, and the others take the min() of the sizes of the
\* model's gates that are not single-qudit gates.
BuilderMessage(m, level) ==
    IF level = 4 THEN "Optimization level 4 is not yet ready."
    ELSE IF ~HasEntangler(m) THEN "min() arg is an empty sequence"
    ELSE ""

\* The construction of the task without the checks of the width.
BuildMessage_no_width_check(in, m, level, mss) ==
    IF in.type = "StateVector"
    THEN "State preparation is not yet implemented."
    ELSE BuilderMessage(m, level)

\* The message of the error building the task (lines 207-265) raises, or ""
\* if none.
BuildMessage(in, m, level, mss) ==
    IF in.type = "Circuit"
    THEN IF /\ in.num_qudits > mss
            /\ \E g \in in.gate_set :
                   /\ g.num_qudits > mss
                   /\ g.name # "Measurement"
         THEN "Unable to compile circuit with gate larger than max_synthesis_size."
         ELSE BuilderMessage(m, level)
    ELSE IF in.type = "UnitaryMatrix"
    THEN IF in.num_qudits > mss
         THEN "Cannot synthesize unitary larger than max_synthesis_size."
         ELSE BuilderMessage(m, level)
    ELSE IF in.num_qudits > mss
         THEN "Cannot synthesize state larger than max_synthesis_size."
         ELSE "State preparation is not yet implemented."

\* The error building the task raises, or "" if none.
BuildError(in, m, level, mss) ==
    ExceptionOf(BuildMessage(in, m, level, mss))

NoPassData == [error |-> 0]

CompileIdle ==
    /\ input = OtherInput
    /\ optimization_level = PyInt(1)
    /\ max_synthesis_size = PyInt(3)
    /\ error_threshold = None
    /\ compile_pc = "idle"
    /\ raised = ""
    /\ task = << >>
    /\ next_pass = 1
    /\ iterations = 0
    /\ pass_data = NoPassData
    /\ executed = << >>
    /\ message = ""

\* compile has been called with some arguments.
CompileInit ==
    /\ input \in Inputs
    /\ model \in Models
    /\ optimization_level \in OptimizationLevels
    /\ max_synthesis_size \in SynthesisSizes
    /\ error_threshold \in ErrorThresholds
    /\ compile_pc = "call"
    /\ raised = ""
    /\ task = << >>
    /\ next_pass = 1
    /\ iterations = 0
    /\ pass_data = NoPassData
    /\ executed = << >>
    /\ message = ""

\* Lines 91-206: the input is classified, the default model is filled in
\* and the arguments are validated.
Validate ==
    /\ compile_pc = "call"
    /\ LET m == IF model = NoneModel /\ "num_qudits" \in DOMAIN input
                   /\ \A i \in DOMAIN input.radixes : input.radixes[i] = 2
                THEN DefaultModel(input.num_qudits)
                ELSE model
           msg == PreambleMessage(input, m, optimization_level,
                                  max_synthesis_size)
           e == ExceptionOf(msg)
       IN  /\ model' = m
           /\ message' = msg
           /\ raised' = e
           /\ compile_pc' = IF e = "" THEN "build" ELSE "raised"
    /\ UNCHANGED <<input, optimization_level, max_synthesis_size,
                   error_threshold, task, next_pass, iterations, pass_data,
                   executed>>

\* Lines 207-265: the width checks and the construction of the task.
Build ==
    /\ compile_pc = "build"
    /\ LET msg == BuildMessage(input, model, optimization_level.value,
                               max_synthesis_size.value)
           e == ExceptionOf(msg)
           circuit == IF input.type = "UnitaryMatrix"
                      THEN from_unitary(input) ELSE input
       IN  /\ message' = msg
           /\ raised' = e
           /\ compile_pc' = IF e = "" THEN "run" ELSE "raised"
           /\ task' = IF e = ""
                      THEN _circuit_workflow(circuit, model,
                               optimization_level.value,
                               max_synthesis_size.value,
                               error_threshold, 8)
                      ELSE << >>
    /\ UNCHANGED <<input, model, optimization_level, max_synthesis_size,
                   error_threshold, next_pass, iterations, pass_data,
                   executed>>

\* ForEachBlockPass(..., calculate_error_bound=True), at the top level of
\* the task or in the body of a loop.
CalculatesError(p) ==
    p.name = "ForEachBlockPass" /\ p.calculate_error_bound

AccumulatesError(p) ==
    \/ CalculatesError(p)
    \/ /\ p.name = "WhileLoopPass"
       /\ \E i \in DOMAIN p.loop_body : CalculatesError(p.loop_body[i])

\* Compiler.compile(task) runs the next pass of the task: one pass, or one
\* iteration of a loop, which then runs again or ends.
RunPass ==
    /\ compile_pc = "run"
    /\ next_pass <= Len(task)
    /\ LET p == task[next_pass] IN
        /\ executed' = Append(executed,
                              [stage |-> p.stage, pass |-> p.pass.name])
        /\ \E e \in (IF AccumulatesError(p.pass)
                     THEN 0..MaxBlockError ELSE {0}) :
               pass_data' = [pass_data EXCEPT !.error = @ + e]
        /\ \E again \in (IF p.pass.name = "WhileLoopPass"
                            /\ iterations + 1 < MaxIter
                         THEN BOOLEAN ELSE {FALSE}) :
               IF again
               THEN /\ iterations' = iterations + 1
                    /\ next_pass' = next_pass
               ELSE /\ iterations' = 0
                    /\ next_pass' = next_pass + 1
    /\ UNCHANGED <<input, model, optimization_level, max_synthesis_size,
                   error_threshold, compile_pc, raised, task, message>>

\* A compile that validates its arguments after the task has run.
Return_raising ==
    /\ compile_pc = "run"
    /\ next_pass > Len(task)
    /\ compile_pc' = "raised"
    /\ raised' = "ValueError"
    /\ UNCHANGED <<input, model, optimization_level, max_synthesis_size,
                   error_threshold, task, next_pass, iterations,
                   pass_data, executed, message>>

\* The task has run: compile returns the circuit.
Return ==
    /\ compile_pc = "run"
    /\ next_pass > Len(task)
    /\ compile_pc' = "returned"
    /\ UNCHANGED <<input, model, optimization_level, max_synthesis_size,
                   error_threshold, raised, task, next_pass, iterations,
                   pass_data, executed, message>>

\* ------------------------------------------------------------ constructor

\* The arguments the constructor is called with, among them negative values
\* and a min_prefix_size of None.
InitArgValues ==
    [ success_threshold : {1},
      max_layer : {None, -2, 0, 1, 2},
      no_progress_layers_allowed : {0, 1, 2},
      min_prefix_size : {None, -2, 0, 2, 3},
      store_partial_solutions : BOOLEAN,
      partials_per_depth : {1},
      heuristic_function : {"astar", "dijkstra"},
      seed_option : {None, 1} ]

\* No pass object has been built.
NoPass == [built |-> FALSE]

\* No call of the constructor is modelled.
InitIdle ==
    /\ init_args = BaseArgs
    /\ init_pc = "idle"

\* LEAPSynthesisPass.__init__ (lines 126-166): ValueError for a max_layer or
\* min_prefix_size that is not positive, else the fields are assigned.
__init__ ==
    /\ init_pc = "call"
    /\ IF InitRaises(init_args)
       THEN /\ init_pc' = "ValueError"
            /\ UNCHANGED self
       ELSE /\ init_pc' = "built"
            /\ self' = NewPass(init_args)
    /\ UNCHANGED <<init_args, runs, data, inst, pc, instantiate_options,
                   frontier, counter, top_circuit, layer, successors,
                   circuits, best_dist, best_circ, best_layer, best_dists,
                   best_layers, last_prefix_layer, psols, warned_layers,
                   result, warnings, trace, prefix_frontier>>

\* ------------------------------------------------------- helpers on their own

\* The deepest layer a helper is called with.
MaxLayer == 3

Layers == 0..MaxLayer

\* No helper is called on its own.
CallIdle ==
    /\ call = [fn |-> "none"]
    /\ returned = << >>

\* check_new_best(layer, dist, best_layer, best_dist), for any arguments.
CheckNewBestCalls ==
    [fn : {"check_new_best"}, layer : Layers, dist : Dists,
     best_layer : Layers, best_dist : Dists]

\* The call of check_new_best returns.
CallCheckNewBest ==
    /\ call.fn = "check_new_best"
    /\ returned = << >>
    /\ returned' = << check_new_best(call.layer, call.dist, call.best_layer,
                                     call.best_dist) >>
    /\ UNCHANGED call

\* The longest history of best layers a helper is called with.
MaxHistory == 3

\* The histories synthesize keeps: best_layers starts with the initial layer
\* 0 and goes on with deeper layers, best_dists falls with every new best.
Histories ==
    UNION {
        {h \in [best_layers : [1..n -> Layers], best_dists : [1..n -> Dists]] :
            /\ h.best_layers[1] = 0
            /\ \A i \in 2..n : h.best_layers[i] >= 1
            /\ \A i \in 2..n : h.best_dists[i] < h.best_dists[i - 1]}
        : n \in 1..MaxHistory}

\* check_leap_condition(new_layer, best_dist, best_layers, best_dists,
\* last_prefix_layer), called as synthesize calls it: for a new best, whose
\* cost is below the costs of the history.
CheckLeapCalls ==
    {[fn |-> "check_leap_condition", new_layer |-> x[1], best_dist |-> x[2],
      best_layers |-> x[3].best_layers, best_dists |-> x[3].best_dists,
      last_prefix_layer |-> x[4]] :
        x \in {y \in (Layers \ {0}) \X Dists \X Histories \X Layers :
                  y[2] < y[3].best_dists[Len(y[3].best_dists)]}}

\* The call of check_leap_condition returns (lines 364-378): the two lists
\* it was given have the new pair appended, whatever it returns.
CallCheckLeapCondition ==
    /\ call.fn = "check_leap_condition"
    /\ returned = << >>
    /\ returned' = << check_leap_condition(call.new_layer, call.best_dist,
                          call.best_layers, call.best_dists,
                          call.last_prefix_layer) >>
    /\ call' = [call EXCEPT !.best_layers = Append(@, call.new_layer),
                            !.best_dists = Append(@, call.best_dist)]

\* The machine models the single-qudit rebase pass is built for: any
\* single-qudit gates, with or without entangling gates.
RebaseModels ==
    {MachineModel(n, AllToAll(n), sq \cup mq, [i \in 1..n |-> 2]) :
        n \in 2..3,
        sq \in SUBSET {U3Gate, RZGate, SqrtXGate, XGate},
        mq \in SUBSET {CNOTGate, CZGate}}

\* _get_single_qudit_gate_rebase_pass(model), for any of these models.
SqRebaseCalls ==
    [fn : {"_get_single_qudit_gate_rebase_pass"}, model : RebaseModels]

\* The call of _get_single_qudit_gate_rebase_pass returns.
CallSqRebase ==
    /\ call.fn = "_get_single_qudit_gate_rebase_pass"
    /\ returned = << >>
    /\ returned' = << _get_single_qudit_gate_rebase_pass(call.model) >>
    /\ UNCHANGED call

\* ------------------------------------------------------------ specification

LeapNext ==
    /\ \E r \in Calls :
        \/ Start(r)
        \/ Pop(r)
        \/ Map(r)
        \/ Evaluate(r)
        \/ NoProgress(r)
        \/ Finish(r)
    /\ UNCHANGED <<filterVars, compileVars, initVars, callVars>>

\* One synthesize call.
Init ==
    /\ LeapInit({1}, {2}, PassArgs)
    /\ FilterIdle /\ CompileIdle /\ InitIdle /\ CallIdle

Next == LeapNext

Spec == Init /\ [][Next]_vars

\* Two synthesize calls on the same pass object and equal pass data, the
\* second made when the first is over.
RerunInit ==
    /\ LeapInit({1, 2}, {2}, {BaseArgs})
    /\ FilterIdle /\ CompileIdle /\ InitIdle /\ CallIdle

RerunNext ==
    /\ \E r \in Calls :
        /\ r = 2 => pc[1] \in {"done", "error"}
        /\ \/ Start(r)
           \/ Pop(r)
           \/ Map(r)
           \/ Evaluate(r)
           \/ NoProgress(r)
           \/ Finish(r)
    /\ UNCHANGED <<filterVars, compileVars, initVars, callVars>>

SpecRerun == RerunInit /\ [][RerunNext]_vars

\* One call of the replace filter.
FilterSpecInit ==
    /\ LeapInit({}, {2}, {BaseArgs})
    /\ FilterInit /\ CompileIdle /\ InitIdle /\ CallIdle

FilterNext ==
    /\ ReplaceFilter
    /\ UNCHANGED <<leapVars, compileVars, initVars, callVars>>

SpecFilter == FilterSpecInit /\ [][FilterNext]_vars

\* One call of compile.
CompileSpecInit ==
    /\ LeapInit({}, {2}, {BaseArgs})
    /\ FilterCallIdle /\ CompileInit /\ InitIdle /\ CallIdle

CompileNext ==
    /\ \/ Validate
       \/ Build
       \/ RunPass
       \/ Return
    /\ UNCHANGED <<leapVars, new, old, filter_pc, accept, initVars, callVars>>

SpecCompile == CompileSpecInit /\ [][CompileNext]_vars

\* One call of the constructor of the pass.
ConstructInit ==
    /\ self = NoPass
    /\ LeapCallsInit({}, {2})
    /\ init_args \in InitArgValues
    /\ init_pc = "call"
    /\ FilterIdle /\ CompileIdle /\ CallIdle

ConstructNext ==
    /\ __init__
    /\ UNCHANGED <<filterVars, compileVars, callVars>>

SpecConstruct == ConstructInit /\ [][ConstructNext]_vars

\* One call of check_new_best, on a pass with any success threshold.
CheckNewBestInit ==
    /\ LeapInit({}, {2},
                {[BaseArgs EXCEPT !.success_threshold = t] : t \in Dists})
    /\ call \in CheckNewBestCalls
    /\ returned = << >>
    /\ FilterIdle /\ CompileIdle /\ InitIdle

CheckNewBestNext ==
    /\ CallCheckNewBest
    /\ UNCHANGED <<leapVars, filterVars, compileVars, initVars>>

SpecCheckNewBest == CheckNewBestInit /\ [][CheckNewBestNext]_vars

\* One call of check_leap_condition, on a pass with any min_prefix_size.
CheckLeapInit ==
    /\ LeapInit({}, {2},
                {[BaseArgs EXCEPT !.min_prefix_size = k] : k \in 1..MaxLayer})
    /\ call \in CheckLeapCalls
    /\ returned = << >>
    /\ FilterIdle /\ CompileIdle /\ InitIdle

CheckLeapNext ==
    /\ CallCheckLeapCondition
    /\ UNCHANGED <<leapVars, filterVars, compileVars, initVars>>

SpecCheckLeap == CheckLeapInit /\ [][CheckLeapNext]_vars

\* The arguments of a pass with max_layer set, with any
\* no_progress_layers_allowed.
MaxLayerArgs ==
    {[BaseArgs EXCEPT !.max_layer = m, !.no_progress_layers_allowed = n] :
        m \in {1, 2}, n \in {0, 1, 2}}

BoundedInit ==
    /\ LeapInit({1}, {2}, MaxLayerArgs)
    /\ FilterIdle /\ CompileIdle /\ InitIdle /\ CallIdle

\* One synthesize call of a pass with max_layer set, run to its end: the
\* coroutine is resumed whenever it can take a step (the runtime's map
\* returns, and nothing else is awaited).
SpecBounded == BoundedInit /\ [][LeapNext]_vars /\ WF_vars(LeapNext)

\* The deepest bucket of partial solutions, in number of entries.
MaxPartials == 2

\* The arguments of a pass that stores partial solutions.
PartialsArgs ==
    {[BaseArgs EXCEPT !.store_partial_solutions = TRUE,
                      !.partials_per_depth = k] : k \in 1..MaxPartials}

PartialsInit ==
    /\ LeapInit({1}, {2}, PartialsArgs)
    /\ FilterIdle /\ CompileIdle /\ InitIdle /\ CallIdle

\* One synthesize call of a pass that stores partial solutions.
SpecPartials == PartialsInit /\ [][LeapNext]_vars

\* One call of _get_single_qudit_gate_rebase_pass.
SqRebaseInit ==
    /\ LeapInit({}, {2}, {BaseArgs})
    /\ call \in SqRebaseCalls
    /\ returned = << >>
    /\ FilterIdle /\ CompileIdle /\ InitIdle

SqRebaseNext ==
    /\ CallSqRebase
    /\ UNCHANGED <<leapVars, filterVars, compileVars, initVars>>

SpecSqRebase == SqRebaseInit /\ [][SqRebaseNext]_vars

\* The depth of a deep search, and the number of successors its generator
\* returns for a circuit.
DeepDepth == 4
DeepBranch == 1

\* The arguments of a pass with a min_prefix_size small enough for several
\* prefixes within that depth, and a success threshold no cost is below.
PrefixArgs ==
    {[BaseArgs EXCEPT !.min_prefix_size = k, !.success_threshold = 0] :
        k \in 1..DeepDepth - 1}

PrefixInit ==
    /\ self \in {NewPass(a) : a \in PrefixArgs}
    /\ LeapDataInit({1}, [seed : {2},
                          layer_gen : {LayerGen(DeepBranch, DeepDepth)}])
    /\ FilterIdle /\ CompileIdle /\ InitIdle /\ CallIdle

\* One synthesize call of a pass that can form several prefixes, on data
\* whose layer generator goes deep.
SpecPrefix == PrefixInit /\ [][LeapNext]_vars

\* The depth of a shallow search.
ShallowDepth == 2

\* The arguments of a pass that stores partial solutions or not.
StoreArgs ==
    {[BaseArgs EXCEPT !.store_partial_solutions = b] : b \in BOOLEAN}

\* Calls 1 and 2 are made side by side on one pass object, on pass data of
\* the same or of different seeds; call 3 is made on the pass data of call 1.
InterleavedInit ==
    /\ self \in {NewPass(a) : a \in StoreArgs}
    /\ LeapDataInit(Calls, [seed : {1, 2},
                            layer_gen : {LayerGen(DeepBranch, ShallowDepth)}])
    /\ data[1].seed = 1
    /\ data[3] = data[1]
    /\ FilterIdle /\ CompileIdle /\ InitIdle /\ CallIdle

\* The steps of calls 1 and 2 interleave; call 3 is made when both are over,
\* and so runs alone.
InterleavedNext ==
    /\ \E r \in Calls :
        /\ r = 3 => \A q \in {1, 2} : pc[q] \in {"done", "error"}
        /\ \/ Start(r)
           \/ Pop(r)
           \/ Map(r)
           \/ Evaluate(r)
           \/ NoProgress(r)
           \/ Finish(r)
    /\ UNCHANGED <<filterVars, compileVars, initVars, callVars>>

SpecInterleaved == InterleavedInit /\ [][InterleavedNext]_vars

\* ------------------------------------------------------------------ claims

Last(s) == s[Len(s)]

\* The template `a` is `b` or `b` extended by successor steps.
IsDescendant(a, b) ==
    /\ Len(b.gates) <= Len(a.gates)
    /\ SubSeq(a.gates, 1, Len(b.gates)) = b.gates

\* A call that returned did so with a circuit below the success threshold,
\* or from an emptied frontier with the warning logged and best_circ.
ReturnsSuccessOrBest ==
    \A r \in runs :
        pc[r] = "done" =>
            \/ calc_cost(result[r]) < self.success_threshold
            \/ /\ frontier[r] = {}
               /\ warnings[r] # << >>
               /\ Last(warnings[r]) = "Frontier emptied"
               /\ result[r] = best_circ[r]

\* C1: every return of synthesize is a circuit below success_threshold, or
\* follows the emptying of the frontier, with the "Frontier emptied" warning
\* logged and best_circ returned; and synthesize never raises an error.
C1_ReturnOrWarnNeverRaise ==
    /\ ReturnsSuccessOrBest
    /\ \A r \in runs : pc[r] # "error"

\* C2: the values best_dist takes during a call, all recorded in best_dists,
\* never increase, and best_dist is the last of them.
C2_BestDistNonIncreasing ==
    \A r \in runs :
        pc[r] # "call" =>
            /\ best_dist[r] = Last(best_dists[r])
            /\ Len(best_dists[r]) = Len(best_layers[r])
            /\ \A i, j \in 1..Len(best_dists[r]) :
                  i < j => best_dists[r][j] <= best_dists[r][i]

\* C2's case: the best was replaced twice.
C2_Witness ==
    \E r \in runs : Len(best_dists[r]) >= 3

\* C3: every node popped after a prefix was formed at layer L has a layer of
\* at least L, and was added to the frontier after that prefix was formed.
C3_PopsAtOrBelowPrefix ==
    \A r \in runs : \A i, j \in 1..Len(trace[r]) :
        (i < j /\ trace[r][i].ev = "prefix" /\ trace[r][j].ev = "pop") =>
            /\ trace[r][j].layer >= trace[r][i].layer
            /\ trace[r][j].count >= trace[r][i].count

\* C3's case: a node is popped after a prefix was formed while an entry of
\* a lower layer was waiting in the frontier.
C3_Witness ==
    \E r \in runs : \E i, j, k \in 1..Len(trace[r]) :
        /\ i < j /\ j < k
        /\ trace[r][i].ev = "best"
        /\ trace[r][i].layer < trace[r][j].layer
        /\ trace[r][i].circuit # top_circuit[r]
        /\ trace[r][j].ev = "prefix"
        /\ trace[r][k].ev = "pop"

\* C4: every circuit popped after a prefix was formed on circuit c is c or
\* was generated from c by successor steps.
C4_OnlyDescendantsExpanded ==
    \A r \in runs : \A i, j \in 1..Len(trace[r]) :
        (i < j /\ trace[r][i].ev = "prefix" /\ trace[r][j].ev = "pop") =>
            IsDescendant(trace[r][j].circuit, trace[r][i].circuit)

\* The operations of a circuit on one qudit, and on two or more.
SqCount(circuit) ==
    Cardinality({i \in DOMAIN circuit : circuit[i].gate.num_qudits = 1})

MqCount(circuit) ==
    Cardinality({i \in DOMAIN circuit : circuit[i].gate.num_qudits >= 2})

IsBlock(o) == o.gate.name = "CircuitGate"

\* The body of the block holds native gates only.
BodyIsNative(o) == gate_set(o.gate._circuit) \subseteq model.gate_set

\* Every pair of qudits the body couples lies, through the block's location,
\* on an edge of the model.
BodyIsRouted(o) ==
    \A i \in DOMAIN o.gate._circuit :
        LET loc == o.gate._circuit[i].location
        IN  \A a, b \in DOMAIN loc :
                a # b => Edge(o.location[loc[a] + 1], o.location[loc[b] + 1])
                            \in model.coupling_graph

\* C5: a replacement the filter accepts for a block with a native, routed
\* body has fewer multi-qudit gates than the body, or as many and fewer
\* single-qudit gates; with both counts equal it is rejected.
C5_AcceptedIsSmaller ==
    (filter_pc = "returned" /\ IsBlock(old) /\ BodyIsNative(old)
        /\ BodyIsRouted(old)) =>
        LET org == old.gate._circuit
        IN  /\ accept =>
                \/ MqCount(new) < MqCount(org)
                \/ MqCount(new) = MqCount(org) /\ SqCount(new) < SqCount(org)
            /\ (MqCount(new) = MqCount(org) /\ SqCount(new) = SqCount(org))
                  => ~accept

\* C5's case: a replacement with as many multi-qudit and fewer single-qudit
\* gates is accepted for a native, routed block.
C5_Witness ==
    /\ filter_pc = "returned" /\ IsBlock(old)
    /\ BodyIsNative(old) /\ BodyIsRouted(old)
    /\ MqCount(old.gate._circuit) = 1
    /\ MqCount(new) = 1
    /\ SqCount(new) < SqCount(old.gate._circuit)
    /\ accept

\* What C6 says the filter returns.
C6_Expected ==
    IF ~IsBlock(old) THEN TRUE
    ELSE IF ~BodyIsNative(old) THEN TRUE
    ELSE IF ~BodyIsRouted(old) THEN TRUE
    ELSE LET org == old.gate._circuit
         IN  \/ MqCount(new) < MqCount(org)
             \/ MqCount(new) = MqCount(org) /\ SqCount(new) < SqCount(org)

\* C6: the filter returns true for an operation that is no block, else for
\* a body with a non-native gate, else for a body with an edge off the
\* model's coupling graph, else exactly when the (multi-qudit, single-qudit)
\* counts of new are lexicographically below the body's; and the call
\* changes neither new nor old.
C6_FilterDecision ==
    /\ [](filter_pc = "returned" => accept = C6_Expected)
    /\ [][new' = new /\ old' = old]_vars

\* C6's case: the third test decides; a native block body with an edge off
\* the coupling graph is replaced by a circuit that is not smaller.
C6_Witness ==
    /\ filter_pc = "returned" /\ IsBlock(old)
    /\ BodyIsNative(old) /\ ~BodyIsRouted(old)
    /\ MqCount(new) > MqCount(old.gate._circuit)
    /\ accept

\* The position of a stage in an order of stages, 0 if it is not in it.
StagePosition(stage, order) ==
    IF \E i \in DOMAIN order : order[i] = stage
    THEN CHOOSE i \in DOMAIN order : order[i] = stage
    ELSE 0

\* No pass of a stage of `order` has run before a pass of a stage that
\* precedes it in `order`.
RunsInOrder(order) ==
    \A i, j \in DOMAIN executed :
        /\ i < j
        /\ StagePosition(executed[i].stage, order) > 0
        /\ StagePosition(executed[j].stage, order) > 0
        => StagePosition(executed[i].stage, order)
               <= StagePosition(executed[j].stage, order)

StagesRun == {executed[i].stage : i \in DOMAIN executed}

\* The order of the stages with the resynthesis loop last among the
\* optimizations.
ResynthesisLastOrder ==
    << "SetModel", "PreDelete", "Mapping", "RetargetMQ", "RetargetSQ",
       "Delete", "Resynthesis", "LogError", "ApplyPlacement" >>

\* The order of the stages with the resynthesis loop between the two
\* retargeting stages.
ResynthesisFirstOrder ==
    << "SetModel", "PreDelete", "Mapping", "RetargetMQ", "Resynthesis",
       "RetargetSQ", "Delete", "LogError", "ApplyPlacement" >>

\* C7 as stated: at every level the stages run in the order SetModel,
\* pre-delete loop, Mapping, multi-qudit retargeting, single-qudit
\* retargeting, gate deletion, resynthesis loop, LogError, ApplyPlacement.
C7_ResynthesisRunsLast == RunsInOrder(ResynthesisLastOrder)

\* C7: at every level the stages run in the order SetModel, (level 3 only)
\* pre-delete loop, Mapping, multi-qudit retargeting, (level 3 only)
\* resynthesis loop, single-qudit retargeting, (levels 2 and 3) gate
\* deletion, LogError, ApplyPlacement; no stage runs before a stage that
\* precedes it in this order, and a task that has run has run all the stages
\* of its level.
C7_StageOrder ==
    /\ RunsInOrder(ResynthesisFirstOrder)
    /\ "PreDelete" \in StagesRun => optimization_level.value = 3
    /\ "Resynthesis" \in StagesRun => optimization_level.value = 3
    /\ "Delete" \in StagesRun => optimization_level.value \in {2, 3}
    /\ compile_pc = "returned" =>
           StagesRun \ {"Extract", "Restore"} =
               { "SetModel", "Mapping", "RetargetMQ", "RetargetSQ",
                 "LogError", "ApplyPlacement" }
               \cup (IF optimization_level.value >= 2
                     THEN {"Delete"} ELSE {})
               \cup (IF optimization_level.value = 3
                     THEN {"PreDelete", "Resynthesis"} ELSE {})

\* A level 3 task has run to its end, through the resynthesis loop and then
\* the single-qudit retargeting.
C7_Witness ==
    /\ compile_pc = "returned"
    /\ optimization_level.value = 3
    /\ \E i, j \in DOMAIN executed :
        /\ i < j
        /\ executed[i].stage = "Resynthesis"
        /\ executed[j].stage = "RetargetSQ"

\* C8: when error_threshold is given, a workflow that has finished has an
\* accumulated data.error of at most error_threshold.
C8_ErrorWithinThreshold ==
    compile_pc = "returned" /\ error_threshold # None
        => pass_data.error <= error_threshold

ValidBeforeSize ==
    /\ input.type \in {"Circuit", "UnitaryMatrix", "StateVector"}
    /\ \A i \in DOMAIN input.radixes : input.radixes[i] = 2
    /\ "gate_set" \in DOMAIN model
    /\ model.num_qudits >= input.num_qudits
    /\ \A i \in DOMAIN model.radixes : model.radixes[i] = 2
    /\ input.num_qudits > 1 => \E g \in model.gate_set : g.num_qudits >= 2
    /\ optimization_level.type = "int"
    /\ optimization_level.value \in 1..4

\* The arguments of compile pass every check of the preamble:
\* max_synthesis_size is an integer of at least 2 as well.
ValidArguments ==
    /\ ValidBeforeSize
    /\ max_synthesis_size.type = "int"
    /\ max_synthesis_size.value >= 2

\* compile has left the preamble and the construction of the task behind.
TaskBuiltOrRaised == compile_pc \notin {"call", "build"}

C12_AnyWideGateRaises ==
    /\ TaskBuiltOrRaised
    /\ ValidArguments
    /\ \/ /\ input.type = "Circuit"
          /\ \E g \in input.gate_set :
                 g.num_qudits > max_synthesis_size.value
       \/ /\ input.type = "UnitaryMatrix"
          /\ input.num_qudits > max_synthesis_size.value
    => compile_pc = "raised" /\ raised = "ValueError"

\* C12: compile raises ValueError whenever the input circuit contains a gate
\* other than a MeasurementPlaceholder on more than max_synthesis_size
\* qudits, and whenever a unitary input has more than max_synthesis_size
\* qudits (the other arguments being valid); no task is built then.
C12_WideGateRaises ==
    /\ TaskBuiltOrRaised
    /\ ValidArguments
    /\ \/ /\ input.type = "Circuit"
          /\ \E g \in input.gate_set :
                 /\ g.num_qudits > max_synthesis_size.value
                 /\ g.name # "Measurement"
       \/ /\ input.type = "UnitaryMatrix"
          /\ input.num_qudits > max_synthesis_size.value
    => /\ compile_pc = "raised"
       /\ raised = "ValueError"
       /\ task = << >>

\* compile has refused a circuit with a three-qudit gate at
\* max_synthesis_size = 2.
C12_Witness ==
    /\ compile_pc = "raised"
    /\ raised = "ValueError"
    /\ ValidArguments
    /\ input.type = "Circuit"
    /\ ToffoliGate \in input.gate_set
    /\ max_synthesis_size.value = 2

\* C13: the "No entangling gates" ValueError is raised exactly when the
\* model has no gate on two or more qudits and the input has more than one
\* qudit (the earlier checks passing); and a one-qudit input on a model
\* without a multi-qudit gate passes validation and gets its workflow built
\* at levels 1 to 3 without an error.
C13_OneQuditNeedsNoEntangler ==
    /\ /\ TaskBuiltOrRaised
       /\ input.type \in {"Circuit", "UnitaryMatrix", "StateVector"}
       /\ \A i \in DOMAIN input.radixes : input.radixes[i] = 2
       /\ "gate_set" \in DOMAIN model
       /\ model.num_qudits >= input.num_qudits
       /\ \A i \in DOMAIN model.radixes : model.radixes[i] = 2
       => (message = "No entangling gates in native gate set."
              <=> /\ \A g \in model.gate_set : g.num_qudits < 2
                  /\ input.num_qudits > 1)
    /\ /\ TaskBuiltOrRaised
       /\ ValidArguments
       /\ input.type \in {"Circuit", "UnitaryMatrix"}
       /\ input.num_qudits = 1
       /\ \A g \in model.gate_set : g.num_qudits < 2
       /\ optimization_level.value \in 1..3
       => compile_pc # "raised"

\* The message of the check of the range of max_synthesis_size.
SizeMessage == "The maximum synthesis size needs to be greater than 2."

C15_RaisedBeforeAnyPass ==
    /\ [](compile_pc = "raised" =>
             /\ raised \in {"TypeError", "ValueError", "NotImplementedError"}
             /\ executed = << >>
             /\ next_pass = 1
             /\ pass_data = NoPassData
             /\ task = << >>)
    /\ [][input' = input]_vars

\* compile has raised after the preamble, while the task was built.
C15_Witness ==
    /\ compile_pc = "raised"
    /\ ValidArguments
    /\ message = "min() arg is an empty sequence"

\* C16: whatever no_progress_layers_allowed the constructor accepted, the
\* no-progress check of synthesize only warns: no call ends in an error at
\* the check.
C16_NoProgressOnlyWarns ==
    \A r \in runs :
        ~(pc[r] = "error" /\ self.no_progress_layers_allowed \in {0, 1, 2})

\* C17: the constructor raises ValueError exactly when max_layer is given
\* and not positive or min_prefix_size is given and not positive, and then
\* builds no pass object; a pass object that was built has a max_layer that
\* is None or positive and a min_prefix_size that is None or positive.
C17_ConstructorRejectsNonPositive ==
    init_pc \in {"ValueError", "built"} =>
        /\ init_pc = "ValueError" <=>
               \/ /\ init_args.max_layer # None
                  /\ init_args.max_layer <= 0
               \/ /\ init_args.min_prefix_size # None
                  /\ init_args.min_prefix_size <= 0
        /\ init_pc = "ValueError" => self = NoPass
        /\ init_pc = "built" =>
               /\ self.max_layer = None \/ self.max_layer > 0
               /\ self.min_prefix_size = None \/ self.min_prefix_size > 0
               /\ self.max_layer = init_args.max_layer
               /\ self.min_prefix_size = init_args.min_prefix_size

\* The constructor has refused a min_prefix_size of 0 given with a valid
\* max_layer.
C17_Witness ==
    /\ init_pc = "ValueError"
    /\ init_args.min_prefix_size = 0
    /\ init_args.max_layer = 2

\* C18: with store_partial_solutions, every return of synthesize has stored
\* the partial solutions collected so far in data under 'psols'.
C18_PsolsStoredOnReturn ==
    \A r \in runs :
        pc[r] = "done" /\ self.store_partial_solutions =>
            /\ "psols" \in DOMAIN data[r]
            /\ data[r].psols = psols[r]

\* C19: in the task of every level, ExtractMeasurements comes before and
\* RestoreMeasurements after every pass of the level's builder, and
\* RestoreMeasurements is the last pass of the task; the passes run in that
\* order.
C19_MeasurementsBracket ==
    /\ task # << >> =>
        /\ task[Len(task)].pass.name = "RestoreMeasurements"
        /\ \E e \in DOMAIN task :
            /\ task[e].pass.name = "ExtractMeasurements"
            /\ \A i \in DOMAIN task :
                   task[i].stage \notin {"Extract", "Restore"} =>
                       e < i /\ i < Len(task)
        /\ \E i \in DOMAIN task :
               task[i].stage \notin {"Extract", "Restore"}
    /\ \A i \in DOMAIN executed :
           executed[i].stage \notin {"Extract", "Restore"} =>
               /\ \E e \in 1..(i - 1) :
                      executed[e].pass = "ExtractMeasurements"
               /\ \A j \in 1..i : executed[j].pass # "RestoreMeasurements"
    /\ compile_pc = "returned" =>
           executed[Len(executed)].pass = "RestoreMeasurements"

\* A level 3 task has run to its end, RestoreMeasurements last.
C19_Witness ==
    /\ compile_pc = "returned"
    /\ optimization_level.value = 3
    /\ executed[Len(executed)].pass = "RestoreMeasurements"
    /\ executed[2].pass = "ExtractMeasurements"

\* C20: check_new_best(layer, dist, best_layer, best_dist) is true exactly
\* when dist < best_dist and (best_dist >= success_threshold or
\* layer <= best_layer), or dist < success_threshold and layer < best_layer.
C20_CheckNewBest ==
    returned # << >> =>
        (returned[1] <=>
            \/ /\ call.dist < call.best_dist
               /\ \/ call.best_dist >= self.success_threshold
                  \/ call.layer <= call.best_layer
            \/ /\ call.dist < self.success_threshold
               /\ call.layer < call.best_layer)

\* check_new_best has returned true for a candidate that is no closer than
\* the best: the second clause decided.
C20_Witness ==
    /\ returned = << TRUE >>
    /\ call.fn = "check_new_best"
    /\ call.dist >= call.best_dist

\* The line fitted to a history by least squares, as fractions of the common
\* denominator q: slope m / q and intercept b / q.
LeastSquares(xs, ys) ==
    [q |-> Len(xs) * RegSxx(xs),
     m |-> Len(xs) * RegSxy(xs, ys),
     b |-> SumSeq(ys) * RegSxx(xs) - RegSxy(xs, ys) * SumSeq(xs)]

\* The residuals of the line `fit` sum to zero, and so do the residuals
\* weighted by the layers: the normal equations of the least-squares fit.
IsLeastSquares(fit, xs, ys) ==
    /\ SumSeq([i \in 1..Len(xs) |->
            fit.q * ys[i] - fit.m * xs[i] - fit.b]) = 0
    /\ SumSeq([i \in 1..Len(xs) |->
            xs[i] * (fit.q * ys[i] - fit.m * xs[i] - fit.b)]) = 0

\* The layers of a history are all the same: the fit has no slope.
AllEqual(xs) == \A i, j \in 1..Len(xs) : xs[i] = xs[j]

\* C21: check_leap_condition returns true exactly when the prediction of the
\* line fitted to the history recorded before the new best is a number,
\* lies strictly below best_dist at new_layer, and new_layer is at least
\* min_prefix_size past last_prefix_layer; and every call, whatever it
\* returns, appends the one pair (new_layer, best_dist), so the two lists
\* stay equally long.
C21_CheckLeapCondition ==
    [][(call.fn = "check_leap_condition" /\ returned = << >>
            /\ returned' # << >>) =>
        LET xs == call.best_layers
            ys == call.best_dists
            fit == LeastSquares(xs, ys)
        IN  /\ ~AllEqual(xs) => fit.q > 0 /\ IsLeastSquares(fit, xs, ys)
            /\ returned'[1] <=>
                   /\ ~AllEqual(xs)
                   /\ fit.m * call.new_layer + fit.b < fit.q * call.best_dist
                   /\ call.new_layer - call.last_prefix_layer
                          >= self.min_prefix_size
            /\ call'.best_layers = Append(xs, call.new_layer)
            /\ call'.best_dists = Append(ys, call.best_dist)
            /\ Len(call'.best_layers) = Len(call'.best_dists)]_vars

\* A call on a history of several bests returned true and appended its
\* pair.
C21_Witness ==
    /\ call.fn = "check_leap_condition"
    /\ returned = <<TRUE>>
    /\ Len(call.best_layers) >= 3
    /\ Len(call.best_layers) = Len(call.best_dists)

\* A call whose fit is not a number returned false and appended its pair.
C21_WitnessNaN ==
    /\ call.fn = "check_leap_condition"
    /\ returned = <<FALSE>>
    /\ Len(call.best_layers) = 2
    /\ Len(call.best_dists) = 2

\* The prefixes a call has formed, as positions of its history.
Prefixes(r) == {i \in 1..Len(trace[r]) : trace[r][i].ev = "prefix"}

C22_WitnessHeld ==
    \E r \in runs :
        /\ Prefixes(r) # {}
        /\ self.max_layer = None
        /\ Cardinality(prefix_frontier[r]) = 1

\* C23: when the instantiated initial layer costs less than
\* success_threshold, synthesize returns it at once: nothing was popped, no
\* successor was generated and nothing but the initial layer was
\* instantiated.
C23_InitialSuccessReturnsAtOnce ==
    \A r \in runs :
        (pc[r] \notin {"none", "call"}
            /\ best_dists[r][1] < self.success_threshold) =>
        /\ pc[r] = "done"
        /\ result[r] = Circuit(gen_initial_layer, best_dists[r][1])
        /\ trace[r] = << >>
        /\ successors[r] = << >>
        /\ circuits[r] = << >>
        /\ \A e \in inst : e.gates = gen_initial_layer
        /\ Cardinality(frontier[r]) = 1

\* A call returned its initial layer, which cost less than the threshold.
C23_Witness ==
    \E r \in runs :
        /\ pc[r] = "done"
        /\ best_dists[r] = <<0>>
        /\ result[r] = Circuit(gen_initial_layer, 0)
        /\ trace[r] = << >>

\* C24: with max_layer set, every entry of the frontier has a layer below
\* max_layer, so every candidate generated and evaluated, every circuit
\* popped and the best layer are at most max_layer deep; prefixes included.
C24_MaxLayerBoundsDepth ==
    \A r \in runs :
        (self.max_layer # None /\ pc[r] \notin {"none", "call"}) =>
        /\ \A e \in frontier[r] \cup prefix_frontier[r] :
               e.layer < self.max_layer
        /\ \A i \in 1..Len(successors[r]) :
               Len(successors[r][i]) <= self.max_layer
        /\ \A i \in 1..Len(circuits[r]) :
               Len(circuits[r][i].gates) <= self.max_layer
        /\ \A i \in 1..Len(trace[r]) :
               /\ trace[r][i].layer <= self.max_layer
               /\ trace[r][i].ev = "pop" => trace[r][i].layer < self.max_layer
        /\ \A e \in inst : Len(e.gates) <= self.max_layer
        /\ best_layer[r] <= self.max_layer
        /\ layer[r] < self.max_layer

\* With max_layer below the depth the generator reaches, a candidate of depth
\* max_layer became the new best and the search went on until the frontier
\* emptied.
C24_Witness ==
    \E r \in runs :
        /\ self.max_layer # None
        /\ self.max_layer < GenDepth
        /\ best_layer[r] = self.max_layer
        /\ pc[r] = "done"
        /\ Len(warnings[r]) > 0

\* With max_layer set, a prefix was formed at the layer max_layer.
C24_WitnessPrefix ==
    \E r \in runs :
        /\ self.max_layer # None
        /\ \E i \in Prefixes(r) : trace[r][i].layer = self.max_layer

\* C25: with max_layer set (and a generator of finitely many successors),
\* every synthesize call eventually returns.
C25_EventuallyReturns == <>(\A r \in runs : pc[r] = "done")

\* Every such call eventually ends, by a return or by an exception.
C25_EventuallyEnds == <>(\A r \in runs : pc[r] \in {"done", "error"})

\* Every such call of a pass with a nonzero no_progress_layers_allowed
\* eventually returns.
C25_ReturnsUnlessZero ==
    self.no_progress_layers_allowed # 0 => <>(\A r \in runs : pc[r] = "done")

\* The candidates of call r that were evaluated without ending the search,
\* after a pop at layer k: <<i, j>> is successor j of the circuit popped at
\* position i of the history. The candidates of the last pop are evaluated
\* once they have left `circuits`.
Recorded(r, k) ==
    {x \in (1..Len(trace[r])) \X (1..Branch) :
        LET e == trace[r][x[1]]
            succ == gen_successors(data[r].layer_gen, e.circuit)
            last == \A i \in (x[1] + 1)..Len(trace[r]) :
                        trace[r][i].ev # "pop"
        IN  /\ e.ev = "pop"
            /\ e.layer = k
            /\ x[2] <= Len(succ)
            /\ last => /\ pc[r] # "map"
                       /\ \A i \in 1..Len(circuits[r]) :
                              circuits[r][i].gates # succ[x[2]]}

\* The cost the candidate x of Recorded was instantiated to.
RecordedCost(r, x) ==
    LET t == gen_successors(data[r].layer_gen,
                            trace[r][x[1]].circuit)[x[2]]
    IN  (CHOOSE e \in inst : e.gates = t).cost

\* The bucket of layer k in the partial solutions of call r.
Bucket(r, k) == IF k \in DOMAIN psols[r] THEN psols[r][k] ELSE << >>

\* C26: with store_partial_solutions, every evaluated candidate that does
\* not end the search is recorded in the bucket of its layer (the layer of
\* the pop it comes from), and every bucket holds at most partials_per_depth
\* entries, the cheapest of those recorded for it so far.
C26_BucketsKeepCheapest ==
    \A r \in runs :
        (self.store_partial_solutions /\ pc[r] \notin {"none", "call"}) =>
        \A k \in 0..GenDepth :
            LET bucket == Bucket(r, k)
                nb(d) == Cardinality({i \in 1..Len(bucket) : bucket[i][2] = d})
                nr(d) == Cardinality({x \in Recorded(r, k) :
                                        RecordedCost(r, x) = d})
            IN  /\ k \in DOMAIN psols[r] <=> Recorded(r, k) # {}
                /\ Len(bucket) <= self.partials_per_depth
                /\ Len(bucket) = Min({self.partials_per_depth,
                                      Cardinality(Recorded(r, k))})
                /\ \A i \in 1..Len(bucket) :
                       /\ calc_cost(bucket[i][1]) = bucket[i][2]
                       /\ Len(bucket[i][1].gates) = k + 1
                /\ \A d \in Dists : nb(d) <= nr(d)
                /\ \A d1, d2 \in Dists :
                       (d1 < d2 /\ nb(d2) > 0) => nb(d1) = nr(d1)

\* A bucket overflowed: more candidates were recorded for it than it holds,
\* and a candidate recorded later was cheaper than one recorded before it.
C26_Witness ==
    \E r \in runs : \E k \in 0..GenDepth :
        /\ self.store_partial_solutions
        /\ Len(Bucket(r, k)) = self.partials_per_depth
        /\ Cardinality(Recorded(r, k)) > MaxPartials
        /\ \E x, y \in Recorded(r, k) :
               /\ x[1] < y[1]
               /\ RecordedCost(r, y) < RecordedCost(r, x)
               /\ \E i \in 1..Len(Bucket(r, k)) :
                      Bucket(r, k)[i][2] = RecordedCost(r, y)

\* The layers call r has emitted a no-progress warning for.
Warned(r) == {warned_layers[r][i] : i \in 1..Len(warned_layers[r])}

\* x is a nonzero multiple of n.
NonzeroMultiple(x, n) == x # 0 /\ \E k \in 1..Abs(x) : Abs(x) = k * Abs(n)

\* C27: after the batch of a circuit popped at layer l, a no-progress
\* warning is emitted exactly when |best_layer - l| is a nonzero multiple of
\* no_progress_layers_allowed and none was emitted for l before; so there
\* is at most one such warning per layer in a call.
C27_WarnsOncePerLayer ==
    /\ [][\A r \in runs : (pc[r] = "check" /\ pc'[r] # "check") =>
            LET due == /\ NonzeroMultiple(best_layer[r] - layer[r],
                                          self.no_progress_layers_allowed)
                       /\ layer[r] \notin Warned(r)
            IN  IF due
                THEN /\ warnings'[r] = Append(warnings[r], "No improvement")
                     /\ Warned(r)' = Warned(r) \cup {layer[r]}
                ELSE /\ warnings'[r] = warnings[r]
                     /\ Warned(r)' = Warned(r)]_vars
    /\ [](\A r \in runs :
            /\ Cardinality(Warned(r)) = Len(warned_layers[r])
            /\ Len(warned_layers[r]) =
                   Cardinality({i \in 1..Len(warnings[r]) :
                                  warnings[r][i] = "No improvement"}))

\* The initial layer stayed the best; the first batch of layer 1 was warned
\* about, and the second batch of layer 1, just evaluated, was not.
C27_Witness ==
    \E r \in runs :
        /\ self.no_progress_layers_allowed = 1
        /\ pc[r] = "loop"
        /\ best_layer[r] = 0
        /\ \A i \in 1..Len(trace[r]) : trace[r][i].ev = "pop"
        /\ Len(trace[r]) >= 3
        /\ trace[r][Len(trace[r])].layer = 1
        /\ trace[r][Len(trace[r]) - 1].layer = 1
        /\ warned_layers[r] = <<1>>
        /\ warnings[r] = <<"No improvement">>

\* The single-qudit gates of the model a rebase pass was asked for.
SqGates == {g \in call.model.gate_set : g.num_qudits = 1}

\* The pass that rewrites a block inside a single-qudit rebase pass p.
CoreSqRebase(p) == p.passes[1].on_true[2].loop_body[1].on_true

SqSearch ==
    QSearchSynthesisPass("SingleQuditLayerGenerator", "DijkstraHeuristic")

\* The pass that _get_single_qudit_gate_rebase_pass returned is a no-op
\* without single-qudit gates, and else rewrites blocks with `core`.
SqRebaseIs(core) ==
    IF SqGates = {}
    THEN returned[1] = SimplePass("NOOPPass")
    ELSE /\ returned[1].name = "PassGroup"
         /\ CoreSqRebase(returned[1]) = core

\* C28 as stated: U3Decomposition exactly for the single-qudit gates {U3},
\* ZXZXZDecomposition exactly for {RZ, SqrtX}, QSearch with
\* SingleQuditLayerGenerator and the Dijkstra heuristic for every other
\* non-empty set, and a no-op for none.
C28_ExactGateSets ==
    (call.fn = "_get_single_qudit_gate_rebase_pass" /\ returned # << >>) =>
        SqRebaseIs(IF SqGates = {U3Gate}
                   THEN SimplePass("U3Decomposition")
                   ELSE IF SqGates = {RZGate, SqrtXGate}
                        THEN SimplePass("ZXZXZDecomposition")
                        ELSE SqSearch)

\* C28, amended: U3Decomposition exactly for the single-qudit gates {U3},
\* ZXZXZDecomposition exactly when RZ and SqrtX are both among the
\* single-qudit gates (alone or with others), QSearch with
\* SingleQuditLayerGenerator and the Dijkstra heuristic for every other
\* non-empty set, and a no-op for none.
C28_RebaseByGateSet ==
    (call.fn = "_get_single_qudit_gate_rebase_pass" /\ returned # << >>) =>
        SqRebaseIs(IF SqGates = {U3Gate}
                   THEN SimplePass("U3Decomposition")
                   ELSE IF {RZGate, SqrtXGate} \subseteq SqGates
                        THEN SimplePass("ZXZXZDecomposition")
                        ELSE SqSearch)

\* A pass was built for RZ, SqrtX and a third single-qudit gate, and
\* rewrites blocks with ZXZXZDecomposition.
C28_Witness ==
    /\ call.fn = "_get_single_qudit_gate_rebase_pass"
    /\ returned # << >>
    /\ SqGates = {RZGate, SqrtXGate, XGate}
    /\ CoreSqRebase(returned[1]) = SimplePass("ZXZXZDecomposition")

\* Call r returned because its frontier emptied.
FrontierEmptied(r) ==
    /\ pc[r] = "done"
    /\ warnings[r] # << >>
    /\ Last(warnings[r]) = "Frontier emptied"

\* C29: when synthesize returns because the frontier emptied, the cost of
\* the circuit it returns is the least cost among the initial layer and all
\* candidates evaluated during the call.
C29_ReturnsCheapestEvaluated ==
    \A r \in runs : FrontierEmptied(r) =>
        /\ circuits[r] = << >>
        /\ \E e \in inst : result[r] = Circuit(e.gates, e.cost)
        /\ \A e \in inst : calc_cost(result[r]) <= e.cost

\* The frontier emptied; the circuit returned is a candidate of the deepest
\* layer, cheaper than another candidate of its layer and than a candidate
\* of the layer before.
C29_Witness ==
    \E r \in runs :
        /\ FrontierEmptied(r)
        /\ Len(result[r].gates) = GenDepth
        /\ \E e \in inst :
               Len(e.gates) = 1 /\ calc_cost(result[r]) < e.cost
        /\ \E e \in inst :
               Len(e.gates) = GenDepth /\ calc_cost(result[r]) < e.cost

\* C30: whenever synthesize calls check_new_best, best_dist and dist are
\* both at least success_threshold; so the candidate becomes the new best
\* exactly when dist < best_dist, whatever its layer, and the clause
\* "dist < success_threshold and layer < best_layer" holds at no call.
C30_NewBestIffCheaper ==
    [][\A r \in runs : (pc[r] = "eval" /\ circuits'[r] # circuits[r]) =>
        LET circuit == Head(circuits[r])
            dist == calc_cost(circuit)
            l == layer[r] + 1
        IN  /\ best_dist[r] >= self.success_threshold
            /\ dist >= self.success_threshold
            /\ ~(dist < self.success_threshold /\ l < best_layer[r])
            /\ check_new_best(l, dist, best_layer[r], best_dist[r])
                    <=> dist < best_dist[r]
            /\ IF dist < best_dist[r]
               THEN /\ best_dist'[r] = dist
                    /\ best_circ'[r] = circuit
                    /\ best_layer'[r] = l
               ELSE /\ best_dist'[r] = best_dist[r]
                    /\ best_circ'[r] = best_circ[r]
                    /\ best_layer'[r] = best_layer[r]]_vars

\* A candidate became the new best at a layer deeper than the best before
\* it, and another did at the layer of the best before it.
C30_Witness ==
    \E r \in runs : \E i, j, k \in 1..Len(trace[r]) :
        /\ i < j /\ j < k
        /\ trace[r][i].ev = "best"
        /\ trace[r][j].ev = "best"
        /\ trace[r][k].ev = "best"
        /\ trace[r][j].layer > trace[r][i].layer
        /\ trace[r][k].layer = trace[r][j].layer
        /\ \A n \in (j + 1)..(k - 1) : trace[r][n].ev # "best"

\* C31: every evaluated candidate is pushed onto the frontier at most once
\* in a synthesize call: the frontier never holds two entries for the same
\* candidate.
C31_PushedAtMostOnce ==
    \A r \in runs : \A e1, e2 \in frontier[r] :
        e1.circuit = e2.circuit => e1 = e2

\* C32: last_prefix_layer starts at 0, changes only when a prefix is formed,
\* and every prefix raises it by at least min_prefix_size; so it never
\* decreases, and two prefixes of one call are at least min_prefix_size
\* layers apart.
C32_PrefixLayerRises ==
    /\ [](\A r \in runs :
            /\ (pc[r] \notin {"none", "call"} /\ Prefixes(r) = {}) =>
                   last_prefix_layer[r] = 0
            /\ \A i, j \in Prefixes(r) :
                   i < j => trace[r][j].layer - trace[r][i].layer
                                >= self.min_prefix_size)
    /\ [][\A r \in runs :
            /\ last_prefix_layer'[r] >= last_prefix_layer[r]
            /\ last_prefix_layer'[r] # last_prefix_layer[r] =>
                   Prefixes(r)' # Prefixes(r)
            /\ Prefixes(r)' # Prefixes(r) =>
                   last_prefix_layer'[r] - last_prefix_layer[r]
                       >= self.min_prefix_size]_vars

\* A call formed two prefixes, the second deeper than the first.
C32_Witness ==
    \E r \in runs : \E i, j \in Prefixes(r) :
        /\ i < j
        /\ trace[r][i].layer < trace[r][j].layer
        /\ last_prefix_layer[r] = trace[r][j].layer

\* After a prefix, a new best that the fitted line did not predict came
\* less than min_prefix_size layers later, and formed no prefix.
C32_WitnessTooClose ==
    \E r \in runs : \E i \in Prefixes(r) : \E k \in 1..Len(trace[r]) :
        /\ i < k
        /\ trace[r][k].ev = "best"
        /\ k + 1 \notin Prefixes(r)
        /\ pc[r] = "check"
        /\ k = Len(trace[r])
        /\ trace[r][k].layer - trace[r][i].layer < self.min_prefix_size
        /\ LET n == Len(best_layers[r]) - 1
           IN  check_leap_condition_any_size(trace[r][k].layer,
                   trace[r][k].circuit.cost, SubSeq(best_layers[r], 1, n),
                   SubSeq(best_dists[r], 1, n), trace[r][i].layer)

\* The variables of call r: its position, its locals and its pass data.
Locals(r) ==
    <<pc[r], instantiate_options[r], frontier[r], counter[r], top_circuit[r],
      layer[r], successors[r], circuits[r], best_dist[r], best_circ[r],
      best_layer[r], best_dists[r], best_layers[r], last_prefix_layer[r],
      psols[r], warned_layers[r], result[r], warnings[r], trace[r],
      prefix_frontier[r], data[r]>>

\* The options call r instantiates with are the options of the pass, with
\* the seed of the pass data added when they have none.
OptionsAreSeededCopy(r) ==
    /\ DOMAIN instantiate_options[r] =
           DOMAIN self.instantiate_options \cup {"seed"}
    /\ \A k \in DOMAIN self.instantiate_options :
           instantiate_options[r][k] = self.instantiate_options[k]
    /\ "seed" \notin DOMAIN self.instantiate_options =>
           instantiate_options[r].seed = data[r].seed

\* C33: synthesize changes no field of the pass object: the options it
\* instantiates with are a copy with the seed added (from data.seed when the
\* options have none), its frontier, bests, history and psols are local to
\* the call, and it writes to data the key 'psols' alone, and only with
\* store_partial_solutions; so a call interleaved with another call on the
\* same pass object returns what it returns alone.
C33_CallsDoNotInterfere ==
    /\ [][/\ self' = self
          /\ \E r \in Calls : \A q \in Calls \ {r} : Locals(q)' = Locals(q)
          /\ \A r \in Calls : data'[r] # data[r] =>
                 /\ self.store_partial_solutions
                 /\ DOMAIN data'[r] = DOMAIN data[r] \cup {"psols"}
                 /\ \A k \in DOMAIN data[r] \ {"psols"} :
                        data'[r][k] = data[r][k]]_vars
    /\ [](\A r \in runs :
            pc[r] \notin {"none", "call"} => OptionsAreSeededCopy(r))
    /\ []((\A r \in Calls : pc[r] \in {"done", "error"}) =>
            /\ pc[1] = pc[3]
            /\ result[1] = result[3]
            /\ trace[1] = trace[3]
            /\ warnings[1] = warnings[3]
            /\ data[1] = data[3])

\* Two calls are under way at once, each with its own copy of the options
\* and its own seed in it; the options of the pass object have no seed.
C33_Witness ==
    /\ pc[1] = "map"
    /\ pc[2] = "eval"
    /\ "seed" \notin DOMAIN self.instantiate_options
    /\ instantiate_options[1].seed # instantiate_options[2].seed
    /\ best_dist[1] # best_dist[2]
    /\ pc[3] = "call"

\* The three calls have returned: the call made alone returned what call 1
\* did, call 2 something else, and each left its own psols in its data.
C33_WitnessReturned ==
    /\ \A r \in Calls : pc[r] = "done"
    /\ result[1] = result[3]
    /\ result[2] # result[1]
    /\ \A r \in Calls : "psols" \in DOMAIN data[r]
    /\ data[2].psols # data[1].psols

====
